---- MODULE Spec2Model ----
(***************************************************************************)
(* FishTouchingCoin: accrual engine (app.py), persistence (storage.py),    *)
(* settings (config.py), user operations (ui.py) and the instance lock.    *)
(*                                                                         *)
(* Units.  Monotonic time is counted in whole seconds, money in whole      *)
(* units of "base rate 1 per second", wall-clock dates as proleptic day    *)
(* ordinals (ordinal 1 is a Monday, as in datetime.date.toordinal) and     *)
(* wall-clock time of day as the hour.  The empty date string "" is 0.     *)
(*                                                                         *)
(* Monotonic timestamps.  update_loop only ever uses differences of        *)
(* monotonic readings, so after every operation the origin of the          *)
(* monotonic clock is moved to the reading of the last tick: then          *)
(* last_update_time_m = 0 and last_save_time_m, lock_start_time_m are <= 0.*)
(* Timestamps older than any threshold they are compared against are       *)
(* clipped (Rebase); this changes no comparison the code makes.            *)
(***************************************************************************)
EXTENDS Integers, Sequences, FiniteSets, TLC

\* ---------------------------------------------------------------------
\* Bounds of the model
\* ---------------------------------------------------------------------
LastDay == 6
MaxMoney == 2
NProcs == 3

\* ---------------------------------------------------------------------
\* Program constants (config.py)
\* ---------------------------------------------------------------------
MAX_DELTA == 1
SAVE_INTERVAL == 10
HISTORY_RETENTION_DAYS == 365
DATA_SCHEMA_VERSION == 1
WORK_START == 9

\* Wall-clock dates the clock may show: a Friday, a Saturday, ... and one
\* day a whole retention window later.
NearDays == 5..LastDay
FarDay == LastDay + HISTORY_RETENTION_DAYS
Days == NearDays \cup {FarDay}
\* Wall-clock hours the clock may show.
Times == {8, 12, 17, 18}
\* Monotonic seconds elapsed between two ticks: none, a whole MAX_DELTA,
\* and a gap longer than both MAX_DELTA and SAVE_INTERVAL.
Steps == {0, MAX_DELTA, SAVE_INTERVAL + 1}
\* Probe samples: is_workstation_locked() is True / False / None,
\* get_idle_time() in seconds.
LockStates == {"Locked", "Unlocked", "Unknown"}
IdleTimes == {0, 3}

\* Settings accepted by SettingsDialog._on_ok (all validated).  The grace
\* period LOCK_GRACE_PERIOD_MIN is written in sixtieths of a minute.
SettingsChoices ==
    { [MONTHLY_SALARY |-> 3600, WORK_DAYS_PER_MONTH |-> 1, WORK_HOURS_PER_DAY |-> 1,
       IDLE_THRESHOLD |-> 3, LOCK_GRACE_PERIOD_MIN |-> 11,
       LUNCH_START |-> 12, LUNCH_END |-> 14, WORK_END |-> 18, WEEKEND_MULTIPLIER |-> 2],
      [MONTHLY_SALARY |-> 7200, WORK_DAYS_PER_MONTH |-> 1, WORK_HOURS_PER_DAY |-> 1,
       IDLE_THRESHOLD |-> 3, LOCK_GRACE_PERIOD_MIN |-> 0,
       LUNCH_START |-> 12, LUNCH_END |-> 14, WORK_END |-> 17, WEEKEND_MULTIPLIER |-> 2] }

None == << >>
Some(x) == << x >>
EmptyMap == [k \in {} |-> 0]
NoSettings == [exists |-> FALSE]
NoFile == [exists |-> FALSE, date |-> 0, money |-> 0, settled_date |-> 0,
           history |-> EmptyMap, last_after_work_usage |-> EmptyMap]

VARIABLES
    \* FishMoneyApp fields (app.py __init__)
    current_date, earned_money, settled_date, history, last_after_work_usage,
    base_salary_per_second, is_visible, boss_key_pressed, is_in_tray, is_paused,
    last_update_time_m, last_save_time_m, lock_start_time_m, is_dirty, save_requested,
    \* observer: the monotonic time of the last DataManager.save of this
    \* process that succeeded (the construction before the first one)
    last_success_m,
    \* class Config (global, mutable), the two persisted documents
    Config, data_file, settings_file,
    \* whether the application process is running
    running,
    \* observer: the monotonic time at which the probe began to report Locked
    \* on every tick up to now (None when the last tick was not Locked)
    episode_start_m,
    \* instance lock: the pid in the lock file (0: no file), each process's
    \* position in ensure_single_instance and the pid it read from the file
    lock_file, pc, read_pid,
    \* DataManager.save step by step: the canonical data file and the
    \* temporary file as written bytes, the position in save, the document
    \* being saved, and the canonical file as it was when the save began
    canonical_file, tmp_file, save_pc, save_doc, prev_file,
    \* DataManager.load: the file a corrupt data file was renamed to
    corrupt_file,
    \* observer: the last operation on the data file ("save", "load", ...)
    store_op,
    \* on_exit, per process: the outcome of its final save ("none" before it),
    \* and whether the failure warning was shown
    exit_save, warned,
    \* observer: the kinds of failure the user has been warned of
    \* (_notify_failure): "settings", "reset", "exit"
    notified,
    \* the files at the legacy paths of the data file (StoragePaths
    \* legacy_data_files), as written bytes
    legacy_files

appvars == << current_date, earned_money, settled_date, history, last_after_work_usage,
              base_salary_per_second, is_visible, boss_key_pressed, is_in_tray, is_paused,
              last_update_time_m, last_save_time_m, lock_start_time_m, is_dirty,
              save_requested, last_success_m >>
enginevars == << appvars, Config, data_file, settings_file, running, episode_start_m >>
lockvars == << lock_file, pc, read_pid >>
savevars == << canonical_file, tmp_file, save_pc, save_doc, prev_file >>
mainvars == << corrupt_file, store_op, exit_save, warned, notified, legacy_files >>
vars == << enginevars, lockvars, savevars, mainvars >>

\* The application object together with the data file it writes.  The
\* field writes logs the dates whose history entry an operation writes, the
\* field saves counts the calls of DataManager.save an operation makes.
Self == [ current_date |-> current_date, earned_money |-> earned_money,
          settled_date |-> settled_date, history |-> history,
          last_after_work_usage |-> last_after_work_usage,
          base_salary_per_second |-> base_salary_per_second,
          is_visible |-> is_visible, boss_key_pressed |-> boss_key_pressed,
          is_in_tray |-> is_in_tray, is_paused |-> is_paused,
          last_update_time_m |-> last_update_time_m,
          last_save_time_m |-> last_save_time_m,
          lock_start_time_m |-> lock_start_time_m,
          is_dirty |-> is_dirty, save_requested |-> save_requested,
          last_success_m |-> last_success_m,
          data_file |-> data_file, writes |-> {}, saves |-> 0 ]

SetSelf(w) ==
    /\ current_date' = w.current_date
    /\ earned_money' = w.earned_money
    /\ settled_date' = w.settled_date
    /\ history' = w.history
    /\ last_after_work_usage' = w.last_after_work_usage
    /\ base_salary_per_second' = w.base_salary_per_second
    /\ is_visible' = w.is_visible
    /\ boss_key_pressed' = w.boss_key_pressed
    /\ is_in_tray' = w.is_in_tray
    /\ is_paused' = w.is_paused
    /\ last_update_time_m' = w.last_update_time_m
    /\ last_save_time_m' = w.last_save_time_m
    /\ lock_start_time_m' = w.lock_start_time_m
    /\ is_dirty' = w.is_dirty
    /\ save_requested' = w.save_requested
    /\ last_success_m' = w.last_success_m
    /\ data_file' = w.data_file

\* ---------------------------------------------------------------------
\* config.py
\* ---------------------------------------------------------------------
\* SettingsManager.apply_to_config: minutes -> seconds, the rest copied.
apply_to_config(settings) ==
    [ MONTHLY_SALARY |-> settings.MONTHLY_SALARY,
      WORK_DAYS_PER_MONTH |-> settings.WORK_DAYS_PER_MONTH,
      WORK_HOURS_PER_DAY |-> settings.WORK_HOURS_PER_DAY,
      IDLE_THRESHOLD |-> settings.IDLE_THRESHOLD,
      WEEKEND_MULTIPLIER |-> settings.WEEKEND_MULTIPLIER,
      LOCK_GRACE_PERIOD |-> (settings.LOCK_GRACE_PERIOD_MIN * 60) \div 60,
      LUNCH_START |-> settings.LUNCH_START,
      LUNCH_END |-> settings.LUNCH_END,
      WORK_END |-> settings.WORK_END ]

\* The longest grace period any accepted settings give.
MaxGrace ==
    CHOOSE g \in {apply_to_config(c).LOCK_GRACE_PERIOD : c \in SettingsChoices} :
        \A c \in SettingsChoices : apply_to_config(c).LOCK_GRACE_PERIOD <= g

\* ---------------------------------------------------------------------
\* storage.py
\* ---------------------------------------------------------------------
Max(a, b) == IF a >= b THEN a ELSE b

\* datetime.strptime(date_key, "%Y-%m-%d") succeeds: the key is a calendar
\* date.  Keys that are not dates ("" and other strings) are the ordinals
\* 0 and below.
ParsesAsDate(date_key) == date_key >= 1

\* A bug: keys that do not parse as dates are dropped with the old ones.
_prune_date_map_dropping_unparsable(m, today) ==
    LET cutoff_date == today - (HISTORY_RETENTION_DAYS - 1)
        kept == {k \in DOMAIN m : ParsesAsDate(k) /\ k >= cutoff_date}
    IN  [k \in kept |-> m[k]]

\* DataManager._prune_date_map / _prune_history: keep the keys that do not
\* parse as dates and the keys on or after the cutoff date
\* now - (HISTORY_RETENTION_DAYS - 1).
_prune_date_map(m, today) ==
    LET cutoff_date == today - (HISTORY_RETENTION_DAYS - 1)
        kept == {k \in DOMAIN m : ~ParsesAsDate(k) \/ k >= cutoff_date}
    IN  [k \in kept |-> m[k]]

\* DataManager.append_history: set the entry, then prune.
append_history(h, date_str, money, today) ==
    LET h1 == [k \in (DOMAIN h) \cup {date_str} |-> IF k = date_str THEN money ELSE h[k]]
    IN  _prune_date_map(h1, today)

\* The document DataManager.save serialises.
Document(date_str, money, settled, h, usage, today) ==
    [ exists |-> TRUE, date |-> date_str, money |-> money, settled_date |-> settled,
      history |-> _prune_date_map(h, today),
      last_after_work_usage |-> _prune_date_map(usage, today) ]

\* DataManager.save: ok says whether the write completes; a failed save
\* leaves the canonical file as it was and raises.
save(w, today, ok) ==
    IF ok
    THEN [w EXCEPT !.data_file = Document(w.current_date, w.earned_money, w.settled_date,
                                          w.history, w.last_after_work_usage, today),
                   !.saves = @ + 1]
    ELSE [w EXCEPT !.saves = @ + 1]

\* A bug: the settled date is not read back.
load_without_settled_date(file, today) ==
    IF ~file.exists
    THEN [current_date |-> today, earned_money |-> 0, settled_date |-> 0,
          history |-> EmptyMap, last_after_work_usage |-> EmptyMap]
    ELSE [current_date |-> IF file.date = 0 THEN today ELSE file.date,
          earned_money |-> file.money, settled_date |-> 0,
          history |-> file.history, last_after_work_usage |-> file.last_after_work_usage]

\* DataManager.load of a parsed document: (date or today, money,
\* settled_date, history, usage); no file: the defaults.
load(file, today) ==
    IF ~file.exists
    THEN [current_date |-> today, earned_money |-> 0, settled_date |-> 0,
          history |-> EmptyMap, last_after_work_usage |-> EmptyMap]
    ELSE [current_date |-> IF file.date = 0 THEN today ELSE file.date,
          earned_money |-> file.money, settled_date |-> file.settled_date,
          history |-> file.history, last_after_work_usage |-> file.last_after_work_usage]

\* ---------------------------------------------------------------------
\* app.py
\* ---------------------------------------------------------------------
calculate_base_rate(cfg) ==
    (cfg.MONTHLY_SALARY \div cfg.WORK_DAYS_PER_MONTH) \div (cfg.WORK_HOURS_PER_DAY * 3600)

\* datetime.weekday(): 0 = Monday ... 6 = Sunday.
Weekday(today) == (today + 6) % 7

\* A bug: only Sunday counts as the weekend.
get_rate_multiplier_sunday_only(cfg, today) ==
    IF Weekday(today) >= 6 THEN cfg.WEEKEND_MULTIPLIER ELSE 1

get_rate_multiplier(cfg, today) ==
    IF Weekday(today) >= 5 THEN cfg.WEEKEND_MULTIPLIER ELSE 1

\* A bug: the end of the lunch window is inclusive.
get_time_status_lunch_end_inclusive(cfg, now_time) ==
    IF now_time < WORK_START THEN "BEFORE_WORK"
    ELSE IF cfg.LUNCH_START <= now_time /\ now_time <= cfg.LUNCH_END THEN "LUNCH"
    ELSE IF now_time >= cfg.WORK_END THEN "OFF_WORK"
    ELSE "WORKING_HOURS"

get_time_status(cfg, now_time) ==
    IF now_time < WORK_START THEN "BEFORE_WORK"
    ELSE IF cfg.LUNCH_START <= now_time /\ now_time < cfg.LUNCH_END THEN "LUNCH"
    ELSE IF now_time >= cfg.WORK_END THEN "OFF_WORK"
    ELSE "WORKING_HOURS"

mark_dirty(w, request_save) ==
    [w EXCEPT !.is_dirty = TRUE,
              !.save_requested = IF request_save THEN TRUE ELSE @]

\* A bug: the running total is reset before the old day is recorded.
rollover_date_change_reset_first(w, today, now_m, locked_state) ==
    IF today # w.current_date
    THEN LET a == IF w.settled_date # w.current_date
                  THEN mark_dirty([w EXCEPT
                           !.history = append_history(w.history, w.current_date, 0, today),
                           !.writes = @ \cup {w.current_date},
                           !.settled_date = w.current_date], TRUE)
                  ELSE w
         IN  mark_dirty([a EXCEPT
                 !.current_date = today,
                 !.earned_money = 0,
                 !.lock_start_time_m = IF locked_state # "Locked" THEN None ELSE @,
                 !.last_update_time_m = now_m,
                 !.last_save_time_m = now_m], TRUE)
    ELSE w

\* A bug: the time of the last tick is not moved to this tick.
rollover_reset_keeping_tick_time(w, today, now_m, locked_state) ==
    mark_dirty([w EXCEPT
        !.current_date = today,
        !.earned_money = 0,
        !.lock_start_time_m = IF locked_state # "Locked" THEN None ELSE @,
        !.last_save_time_m = now_m], TRUE)

\* maybe_rollover_day, the reset of a date change (app.py 104-115).
rollover_reset(w, today, now_m, locked_state) ==
    mark_dirty([w EXCEPT
        !.current_date = today,
        !.earned_money = 0,
        !.lock_start_time_m = IF locked_state # "Locked" THEN None ELSE @,
        !.last_update_time_m = now_m,
        !.last_save_time_m = now_m], TRUE)

\* maybe_rollover_day, first trigger: the wall-clock date changed.
rollover_date_change(w, today, now_m, locked_state) ==
    IF today # w.current_date
    THEN LET a == IF w.settled_date # w.current_date
                  THEN mark_dirty([w EXCEPT
                           !.history = append_history(w.history, w.current_date,
                                                      w.earned_money, today),
                           !.writes = @ \cup {w.current_date},
                           !.settled_date = w.current_date], TRUE)
                  ELSE w
         IN  rollover_reset(a, today, now_m, locked_state)
    ELSE w

\* A bug: the settlement also resets the running total, as a rollover does.
rollover_settle_resetting(w, cfg, today, now_time) ==
    IF now_time >= cfg.WORK_END /\ w.settled_date # today
    THEN mark_dirty([w EXCEPT
             !.history = append_history(w.history, today, w.earned_money, today),
             !.writes = @ \cup {today},
             !.settled_date = today,
             !.earned_money = 0], TRUE)
    ELSE w

\* maybe_rollover_day, second trigger: settlement after work hours.
rollover_settle(w, cfg, today, now_time) ==
    IF now_time >= cfg.WORK_END /\ w.settled_date # today
    THEN mark_dirty([w EXCEPT
             !.history = append_history(w.history, today, w.earned_money, today),
             !.writes = @ \cup {today},
             !.settled_date = today], TRUE)
    ELSE w

maybe_rollover_day(w, cfg, today, now_time, now_m, locked_state) ==
    rollover_settle(rollover_date_change(w, today, now_m, locked_state),
                    cfg, today, now_time)

\* A bug: a dirty state is saved on every tick, whatever the interval.
save_due_ignoring_interval(w, now_m) ==
    w.is_dirty \/ w.save_requested

\* maybe_save, the two conditions (app.py 131-133).
save_due(w, now_m) ==
    /\ w.is_dirty \/ w.save_requested
    /\ w.save_requested \/ (now_m - w.last_save_time_m) > SAVE_INTERVAL

\* A bug: the flags are cleared although DataManager.save raised.
maybe_save_clearing_on_failure(w, now_m, today, ok) ==
    IF save_due(w, now_m)
    THEN [save(w, today, ok) EXCEPT !.is_dirty = FALSE,
                                    !.save_requested = FALSE,
                                    !.last_save_time_m = now_m,
                                    !.last_success_m = IF ok THEN Some(now_m) ELSE @]
    ELSE w

\* A bug: the time of a save that raised is recorded as the last save.
try_save_stamping_failure(w, now_m, today, ok) ==
    IF ok
    THEN [save(w, today, TRUE) EXCEPT !.is_dirty = FALSE,
                                      !.save_requested = FALSE,
                                      !.last_save_time_m = now_m,
                                      !.last_success_m = Some(now_m)]
    ELSE [save(w, today, FALSE) EXCEPT !.last_save_time_m = now_m]

\* maybe_save, the save itself (app.py 134-146): an exception ends
\* maybe_save, otherwise the flags are cleared and the time recorded.
try_save(w, now_m, today, ok) ==
    IF ok
    THEN [save(w, today, TRUE) EXCEPT !.is_dirty = FALSE,
                                      !.save_requested = FALSE,
                                      !.last_save_time_m = now_m,
                                      !.last_success_m = Some(now_m)]
    ELSE save(w, today, FALSE)

\* maybe_save: when a save is due, DataManager.save as above.
maybe_save(w, now_m, today, ok) ==
    IF save_due(w, now_m)
    THEN try_save(w, now_m, today, ok)
    ELSE w

\* ui.py toggle_visibility (boss key).
toggle_visibility(w) ==
    IF w.is_in_tray THEN [w EXCEPT !.is_in_tray = FALSE, !.is_visible = TRUE]
    ELSE IF w.is_visible THEN [w EXCEPT !.is_visible = FALSE]
    ELSE [w EXCEPT !.is_visible = TRUE]

\* A bug: the usage is recorded although the workstation is locked.
maybe_update_last_after_work_usage_when_locked(w, cfg, time_status, today, now_time, idle_time, locked_state) ==
    IF time_status # "OFF_WORK" THEN w
    ELSE IF idle_time >= cfg.IDLE_THRESHOLD THEN w
    ELSE IF today \in DOMAIN w.last_after_work_usage
            /\ w.last_after_work_usage[today] = now_time THEN w
    ELSE mark_dirty([w EXCEPT !.last_after_work_usage =
                        [k \in (DOMAIN @) \cup {today} |->
                            IF k = today THEN now_time ELSE @[k]]], FALSE)

\* maybe_update_last_after_work_usage (app.py 307-324): now_time stands for
\* the HH:MM of the wall clock.
maybe_update_last_after_work_usage(w, cfg, time_status, today, now_time, idle_time, locked_state) ==
    IF time_status # "OFF_WORK" THEN w
    ELSE IF locked_state = "Locked" THEN w
    ELSE IF idle_time >= cfg.IDLE_THRESHOLD THEN w
    ELSE IF today \in DOMAIN w.last_after_work_usage
            /\ w.last_after_work_usage[today] = now_time THEN w
    ELSE mark_dirty([w EXCEPT !.last_after_work_usage =
                        [k \in (DOMAIN @) \cup {today} |->
                            IF k = today THEN now_time ELSE @[k]]], FALSE)

\* update_loop, the boss key (edge triggered): key is is_key_pressed(BOSS_KEY).
boss_key(w, key) ==
    IF key
    THEN IF ~w.boss_key_pressed
         THEN [toggle_visibility(w) EXCEPT !.boss_key_pressed = TRUE]
         ELSE w
    ELSE [w EXCEPT !.boss_key_pressed = FALSE]

\* A bug: money is added whatever the idle time.
accrue_not_locked_ignoring_idle(w, cfg, idle_time, rate, delta) ==
    [w EXCEPT !.lock_start_time_m = None,
              !.earned_money = @ + rate * delta]

\* update_loop in working hours, lock state None (unknown) or False
\* (app.py 262-287): the two branches take the same decisions: the lock
\* timer is cleared and money is added when the idle time has reached the
\* threshold.
accrue_not_locked(w, cfg, idle_time, rate, delta) ==
    IF idle_time >= cfg.IDLE_THRESHOLD
    THEN [w EXCEPT !.lock_start_time_m = None,
                   !.earned_money = @ + rate * delta]
    ELSE [w EXCEPT !.lock_start_time_m = None]

\* A bug: the grace period ends one comparison early (< for <=).
accrue_grace_exclusive(w, cfg, time_status, locked_state, idle_time, now_m, rate, delta) ==
    IF time_status = "BEFORE_WORK"
    THEN IF locked_state = "Locked"
         THEN [w EXCEPT !.lock_start_time_m = IF @ = None THEN Some(now_m) ELSE @]
         ELSE [w EXCEPT !.lock_start_time_m = None]
    ELSE IF time_status = "LUNCH" THEN [w EXCEPT !.lock_start_time_m = None]
    ELSE IF time_status = "OFF_WORK" THEN [w EXCEPT !.lock_start_time_m = None]
    ELSE IF locked_state = "Locked"
         THEN LET lock_start == IF w.lock_start_time_m = None
                                THEN now_m ELSE w.lock_start_time_m[1]
                  locked_duration == now_m - lock_start
              IN  IF locked_duration < cfg.LOCK_GRACE_PERIOD
                  THEN [w EXCEPT !.lock_start_time_m = Some(lock_start),
                                 !.earned_money = @ + rate * delta]
                  ELSE [w EXCEPT !.lock_start_time_m = Some(lock_start)]
         ELSE IF idle_time >= cfg.IDLE_THRESHOLD
              THEN [w EXCEPT !.lock_start_time_m = None,
                             !.earned_money = @ + rate * delta]
              ELSE [w EXCEPT !.lock_start_time_m = None]

\* A bug: before work the lock timer is cleared whatever the probe reports.
accrue_off_hours_never_tracking(w, time_status, locked_state, now_m) ==
    [w EXCEPT !.lock_start_time_m = None]

\* update_loop, the branches BEFORE_WORK, LUNCH and OFF_WORK (app.py
\* 223-243): no money; before work a Locked reading starts the lock timer
\* when it is not running, any other reading clears it; at lunch and after
\* work the timer is cleared.
accrue_off_hours(w, time_status, locked_state, now_m) ==
    IF time_status = "BEFORE_WORK"
    THEN IF locked_state = "Locked"
         THEN [w EXCEPT !.lock_start_time_m = IF @ = None THEN Some(now_m) ELSE @]
         ELSE [w EXCEPT !.lock_start_time_m = None]
    ELSE IF time_status = "LUNCH" THEN [w EXCEPT !.lock_start_time_m = None]
    ELSE [w EXCEPT !.lock_start_time_m = None]

\* update_loop, the branch on time status and lock state (app.py 223-287).
accrue(w, cfg, time_status, locked_state, idle_time, now_m, rate, delta) ==
    IF time_status \in {"BEFORE_WORK", "LUNCH", "OFF_WORK"}
    THEN accrue_off_hours(w, time_status, locked_state, now_m)
    ELSE IF locked_state = "Locked"
         THEN LET lock_start == IF w.lock_start_time_m = None
                                THEN now_m ELSE w.lock_start_time_m[1]
                  locked_duration == now_m - lock_start
              IN  IF locked_duration <= cfg.LOCK_GRACE_PERIOD
                  THEN [w EXCEPT !.lock_start_time_m = Some(lock_start),
                                 !.earned_money = @ + rate * delta]
                  ELSE [w EXCEPT !.lock_start_time_m = Some(lock_start)]
         ELSE accrue_not_locked(w, cfg, idle_time, rate, delta)

\* A bug: the pause flag is not consulted.
pause_or_accrue_ignoring_pause(w, cfg, time_status, locked_state, idle_time, now_m, rate, delta) ==
    LET w5 == accrue(w, cfg, time_status, locked_state, idle_time, now_m, rate, delta)
    IN  IF w5.earned_money # w.earned_money THEN mark_dirty(w5, FALSE) ELSE w5

\* update_loop after the rate is known (app.py 208-292): paused: no money,
\* lock timer cleared; otherwise the branch above, and the state is marked
\* dirty when earned_money changed.
pause_or_accrue(w, cfg, time_status, locked_state, idle_time, now_m, rate, delta) ==
    LET earned_before == w.earned_money
    IN  IF w.is_paused
        THEN [w EXCEPT !.lock_start_time_m = None]
        ELSE LET w5 == accrue(w, cfg, time_status, locked_state, idle_time,
                              now_m, rate, delta)
             IN  IF w5.earned_money # earned_before THEN mark_dirty(w5, FALSE) ELSE w5

\* A bug: a negative delta is used as it is.
clamp_delta_low_signed(delta) ==
    delta

\* The lower clamp of the delta (app.py 193-194).
clamp_delta_low(delta) ==
    IF delta < 0 THEN 0 ELSE delta

\* A bug: the delta is not clamped from above.
clamp_delta_unbounded(delta) ==
    IF delta < 0 THEN 0 ELSE delta

\* The clamped delta of a tick (app.py 191-196).
clamp_delta(delta) ==
    LET low == clamp_delta_low(delta)
    IN  IF low > MAX_DELTA THEN MAX_DELTA ELSE low

\* A bug: a tick with the window hidden leaves the time of the last tick.
hidden_tick_keeping_time(w, now_m) ==
    w

\* update_loop with the window hidden (app.py 184-185): no money, the time
\* of the last tick moves on.
hidden_tick(w, now_m) ==
    [w EXCEPT !.last_update_time_m = now_m]

\* A bug: the delta is measured on the wall clock (time of day since 16
\* o'clock), not on the monotonic clock.
update_before_save_wall_clock_delta(w, cfg, d, today, now_time, locked_state, idle_time, key) ==
    LET now_m == w.last_update_time_m + d
        w1 == maybe_rollover_day(w, cfg, today, now_time, now_m, locked_state)
        w2 == boss_key(w1, key)
    IN  IF ~w2.is_visible
        THEN [w2 EXCEPT !.last_update_time_m = now_m]
        ELSE
        LET delta == clamp_delta(now_time - 16)
            w3 == [w2 EXCEPT !.last_update_time_m = now_m]
            time_status == get_time_status(cfg, now_time)
            w4 == maybe_update_last_after_work_usage(w3, cfg, time_status, today,
                                                     now_time, idle_time, locked_state)
            rate == w4.base_salary_per_second * get_rate_multiplier(cfg, today)
        IN  pause_or_accrue(w4, cfg, time_status, locked_state, idle_time,
                            now_m, rate, delta)

\* One run of update_loop up to its call of maybe_save.  d: monotonic seconds since the previous tick;
\* today, now_time: the wall clock; locked_state, idle_time, key: the probe;
\* ok: whether a save attempted by this tick completes.
update_before_save(w, cfg, d, today, now_time, locked_state, idle_time, key) ==
    LET now_m == w.last_update_time_m + d
        w1 == maybe_rollover_day(w, cfg, today, now_time, now_m, locked_state)
        w2 == boss_key(w1, key)
    IN  IF ~w2.is_visible
        THEN hidden_tick(w2, now_m)
        ELSE
        LET delta == clamp_delta(now_m - w2.last_update_time_m)
            w3 == [w2 EXCEPT !.last_update_time_m = now_m]
            time_status == get_time_status(cfg, now_time)
            w4 == maybe_update_last_after_work_usage(w3, cfg, time_status, today,
                                                     now_time, idle_time, locked_state)
            rate == w4.base_salary_per_second * get_rate_multiplier(cfg, today)
        IN  pause_or_accrue(w4, cfg, time_status, locked_state, idle_time,
                            now_m, rate, delta)

\* A bug: the hidden path returns without calling maybe_save.
update_loop_hidden_without_save(w, cfg, d, today, now_time, locked_state, idle_time, key, ok) ==
    LET b == update_before_save(w, cfg, d, today, now_time, locked_state, idle_time, key)
    IN  IF ~b.is_visible THEN b
        ELSE maybe_save(b, w.last_update_time_m + d, today, ok)

\* update_loop: the above, then maybe_save(now_m) (on both paths).
update_loop(w, cfg, d, today, now_time, locked_state, idle_time, key, ok) ==
    maybe_save(update_before_save(w, cfg, d, today, now_time, locked_state, idle_time, key),
               w.last_update_time_m + d, today, ok)

\* Move the origin of the monotonic clock to the last tick and clip the
\* timestamps that are older than every threshold.
Rebase(w) ==
    LET now_m == w.last_update_time_m
    IN  [w EXCEPT !.last_update_time_m = 0,
                  !.last_save_time_m = Max(@ - now_m, 0 - (SAVE_INTERVAL + 1)),
                  !.last_success_m = Some(Max(@[1] - now_m, 0 - (SAVE_INTERVAL + 1))),
                  !.lock_start_time_m =
                      IF @ = None THEN None
                      ELSE Some(Max(@[1] - now_m, 0 - (MaxGrace + 1)))]

\* FishMoneyApp.__init__ up to (not including) its first update_loop.
NewApp(file, cfg, today) ==
    LET l == load(file, today)
    IN  [ current_date |-> l.current_date, earned_money |-> l.earned_money,
          settled_date |-> l.settled_date, history |-> l.history,
          last_after_work_usage |-> l.last_after_work_usage,
          base_salary_per_second |-> calculate_base_rate(cfg),
          is_visible |-> TRUE, boss_key_pressed |-> FALSE, is_in_tray |-> FALSE,
          is_paused |-> FALSE, last_update_time_m |-> 0, last_save_time_m |-> 0,
          lock_start_time_m |-> None, is_dirty |-> FALSE, save_requested |-> FALSE,
          last_success_m |-> Some(0),
          data_file |-> file, writes |-> {}, saves |-> 0 ]

\* Memory of a process that is not running.
NotRunning ==
    /\ running' = FALSE
    /\ current_date' = 0 /\ earned_money' = 0 /\ settled_date' = 0
    /\ history' = EmptyMap /\ last_after_work_usage' = EmptyMap
    /\ base_salary_per_second' = 0
    /\ is_visible' = FALSE /\ boss_key_pressed' = FALSE /\ is_in_tray' = FALSE
    /\ is_paused' = FALSE
    /\ last_update_time_m' = 0 /\ last_save_time_m' = 0 /\ lock_start_time_m' = None
    /\ is_dirty' = FALSE /\ save_requested' = FALSE
    /\ last_success_m' = Some(0)
    /\ episode_start_m' = None

\* The observer after a tick that read locked_state at monotonic time now_m
\* (timestamps are then rebased like the others).
EpisodeAfterTick(locked_state, d) ==
    IF locked_state # "Locked" THEN None
    ELSE IF episode_start_m = None THEN Some(0)
    ELSE Some(Max(episode_start_m[1] - d, 0 - (MaxGrace + 1)))

\* ---------------------------------------------------------------------
\* Actions
\* ---------------------------------------------------------------------
Tick(d, today, now_time, locked_state, idle_time, key, ok) ==
    /\ running
    /\ UNCHANGED << lockvars, savevars, mainvars >>
    /\ \E w \in {Rebase(update_loop(Self, Config, d, today, now_time, locked_state,
                                     idle_time, key, ok))} :
           /\ w.earned_money <= MaxMoney
           /\ SetSelf(w)
    /\ episode_start_m' = EpisodeAfterTick(locked_state, d)
    /\ UNCHANGED << Config, settings_file, running >>

\* main(): settings loaded (or first-run dialog, saved), applied to Config,
\* then FishMoneyApp(root), whose constructor ends with the first tick.
Startup(choice, today, now_time, locked_state, idle_time, key, ok) ==
    /\ ~running
    /\ UNCHANGED << lockvars, savevars, mainvars >>
    /\ LET settings == IF settings_file.exists THEN settings_file.settings ELSE choice
           cfg == apply_to_config(settings)
           w == Rebase(update_loop(NewApp(data_file, cfg, today), cfg, 0, today, now_time,
                                   locked_state, idle_time, key, ok))
       IN  /\ settings_file' = [exists |-> TRUE, settings |-> settings]
           /\ Config' = cfg
           /\ SetSelf(w)
    /\ running' = TRUE
    /\ episode_start_m' = IF locked_state = "Locked" THEN Some(0) ELSE None

\* ui.py toggle_pause
TogglePause ==
    /\ running
    /\ UNCHANGED << lockvars, savevars, mainvars >>
    /\ SetSelf([Self EXCEPT !.is_paused = ~@])
    /\ UNCHANGED << Config, settings_file, running, episode_start_m >>

\* ui.py hide_to_tray (minimise)
HideToTray ==
    /\ running
    /\ UNCHANGED << lockvars, savevars, mainvars >>
    /\ ~is_in_tray
    /\ SetSelf([Self EXCEPT !.is_in_tray = TRUE, !.is_visible = FALSE])
    /\ UNCHANGED << Config, settings_file, running, episode_start_m >>

\* ui.py restore_from_tray (tray menu)
RestoreFromTray ==
    /\ running
    /\ UNCHANGED << lockvars, savevars, mainvars >>
    /\ is_in_tray
    /\ SetSelf([Self EXCEPT !.is_in_tray = FALSE, !.is_visible = TRUE])
    /\ UNCHANGED << Config, settings_file, running, episode_start_m >>

\* A bug: new settings also start the day's total again.
apply_settings_resetting(w, result) ==
    [w EXCEPT !.base_salary_per_second = calculate_base_rate(apply_to_config(result)),
              !.lock_start_time_m = None,
              !.earned_money = 0]

\* ui.py finalize_dialog with an accepted result: save the settings, apply
\* them, recompute the base rate, clear the lock timer; nothing is applied
\* when the save raises.
apply_settings(w, result) ==
    [w EXCEPT !.base_salary_per_second = calculate_base_rate(apply_to_config(result)),
              !.lock_start_time_m = None]

\* A bug: the settings are applied before they are saved.
finalize_dialog_config_applied_first(cfg, result, ok) ==
    apply_to_config(result)

\* ui.py finalize_dialog, the configuration (ui.py 593-596):
\* SettingsManager.save(dlg.result) comes first and, when it raises,
\* apply_to_config is not reached.
finalize_dialog_config(cfg, result, ok) ==
    IF ok THEN apply_to_config(result) ELSE cfg

\* A bug: the lock timer survives the new settings.
ApplySettings_keeping_lock_timer(result, ok) ==
    /\ running
    /\ UNCHANGED << lockvars, savevars, corrupt_file, store_op, exit_save, warned, legacy_files >>
    /\ IF ok
       THEN /\ settings_file' = [exists |-> TRUE, settings |-> result]
            /\ Config' = apply_to_config(result)
            /\ SetSelf([Self EXCEPT !.base_salary_per_second =
                                        calculate_base_rate(apply_to_config(result))])
            /\ notified' = notified
       ELSE /\ UNCHANGED << appvars, data_file, Config, settings_file >>
            /\ notified' = notified \cup {"settings"}
    /\ UNCHANGED << running, episode_start_m >>

ApplySettings(result, ok) ==
    /\ running
    /\ UNCHANGED << lockvars, savevars, corrupt_file, store_op, exit_save, warned, legacy_files >>
    /\ Config' = finalize_dialog_config(Config, result, ok)
    /\ IF ok
       THEN /\ settings_file' = [exists |-> TRUE, settings |-> result]
            /\ SetSelf(apply_settings(Self, result))
            /\ notified' = notified
       ELSE /\ UNCHANGED << appvars, data_file, settings_file >>
            /\ notified' = notified \cup {"settings"}
    /\ UNCHANGED << running, episode_start_m >>

\* ui.py reset_today (confirmed): zero the total, clear the lock timer,
\* save; when the save raises, the failure is logged and the user warned.
reset_today(w, today, ok) ==
    [save([w EXCEPT !.earned_money = 0, !.lock_start_time_m = None], today, ok)
        EXCEPT !.last_success_m = IF ok THEN Some(w.last_update_time_m) ELSE @]

ResetToday(today, ok) ==
    /\ running
    /\ UNCHANGED << lockvars, savevars, corrupt_file, store_op, exit_save, warned, legacy_files >>
    /\ SetSelf(reset_today(Self, today, ok))
    /\ notified' = IF ok THEN notified ELSE notified \cup {"reset"}
    /\ UNCHANGED << Config, settings_file, running, episode_start_m >>

\* A bug: a failure of the final save is logged only.
Exit_silent(today, ok) ==
    /\ running
    /\ UNCHANGED << lockvars, savevars, mainvars >>
    /\ data_file' = save(Self, today, ok).data_file
    /\ NotRunning
    /\ UNCHANGED << Config, settings_file >>

\* ui.py on_exit: final save (a failure is logged and the user warned),
\* then the window is destroyed.
Exit(today, ok) ==
    /\ running
    /\ UNCHANGED << lockvars, savevars, corrupt_file, store_op, exit_save, warned, legacy_files >>
    /\ data_file' = save(Self, today, ok).data_file
    /\ notified' = IF ok THEN notified ELSE notified \cup {"exit"}
    /\ NotRunning
    /\ UNCHANGED << Config, settings_file >>

\* The process is killed: nothing is saved.
Crash ==
    /\ running
    /\ UNCHANGED << lockvars, savevars, mainvars >>
    /\ NotRunning
    /\ UNCHANGED << Config, settings_file, data_file >>

\* ---------------------------------------------------------------------
\* Instance lock (app.py ensure_single_instance; InstanceLock.acquire and
\* release after section 4.5 of the design; system_utils.is_process_alive)
\* ---------------------------------------------------------------------
Procs == 1..NProcs

\* A bug: only the pid's validity is examined, not whether the process
\* still exists.
is_process_alive_ignoring_exit(pid) ==
    pid > 0

\* SystemUtils.is_process_alive: no pid <= 0 is alive; otherwise the
\* process exists (os.kill(pid, 0) succeeds) until it has exited or died.
is_process_alive(pid) ==
    IF pid <= 0 THEN FALSE
    ELSE pc[pid] \notin {"idle", "exited", "dead"}

\* main() calls ensure_single_instance, which calls lock.acquire().
Launch(p) ==
    /\ pc[p] = "idle"
    /\ pc' = [pc EXCEPT ![p] = "create"]
    /\ UNCHANGED << lock_file, read_pid, enginevars, savevars, mainvars >>

\* acquire: exclusive create of the lock file holding the own pid.
TryCreate(p) ==
    /\ pc[p] = "create"
    /\ IF lock_file = 0
       THEN lock_file' = p /\ pc' = [pc EXCEPT ![p] = "held"]
       ELSE lock_file' = lock_file /\ pc' = [pc EXCEPT ![p] = "read"]
    /\ UNCHANGED << read_pid, enginevars, savevars, mainvars >>

\* acquire: the file exists, read the recorded pid (0 when unreadable).
ReadPid(p) ==
    /\ pc[p] = "read"
    /\ read_pid' = [read_pid EXCEPT ![p] = lock_file]
    /\ pc' = [pc EXCEPT ![p] = "check"]
    /\ UNCHANGED << lock_file, enginevars, savevars, mainvars >>

\* acquire: owner alive -> fail (ensure_single_instance returns None);
\* owner dead -> the lock file is stale.
CheckOwner(p) ==
    /\ pc[p] = "check"
    /\ pc' = [pc EXCEPT ![p] = IF is_process_alive(read_pid[p]) THEN "failed" ELSE "remove"]
    /\ UNCHANGED << lock_file, read_pid, enginevars, savevars, mainvars >>

\* acquire: remove the stale lock file.
RemoveStale(p) ==
    /\ pc[p] = "remove"
    /\ lock_file' = 0
    /\ pc' = [pc EXCEPT ![p] = "retry"]
    /\ UNCHANGED << read_pid, enginevars, savevars, mainvars >>

\* acquire: retry the exclusive create once.
RetryCreate(p) ==
    /\ pc[p] = "retry"
    /\ IF lock_file = 0
       THEN lock_file' = p /\ pc' = [pc EXCEPT ![p] = "held"]
       ELSE lock_file' = lock_file /\ pc' = [pc EXCEPT ![p] = "failed"]
    /\ UNCHANGED << read_pid, enginevars, savevars, mainvars >>

\* release (explicit exit or the atexit hook): the lock file is removed.
Release(p) ==
    /\ pc[p] = "held"
    /\ lock_file' = 0
    /\ pc' = [pc EXCEPT ![p] = "exited"]
    /\ UNCHANGED << read_pid, enginevars, savevars, mainvars >>

\* The running instance is killed: the lock file stays behind.
Kill(p) ==
    /\ pc[p] = "held"
    /\ pc' = [pc EXCEPT ![p] = "dead"]
    /\ UNCHANGED << lock_file, read_pid, enginevars, savevars, mainvars >>

\* ---------------------------------------------------------------------
\* DataManager.save, step by step (storage.py 139-160)
\* ---------------------------------------------------------------------
\* A file on disk: the bytes written so far and whether they have been
\* forced to stable media.
NoBytes == [exists |-> FALSE, bytes |-> << >>, synced |-> TRUE]

\* json.dump of the document: the schema version and the five fields, in
\* the order they are written.  A file parses only when all are there.
Serialize(doc) ==
    << DATA_SCHEMA_VERSION, doc.date, doc.money, doc.settled_date, doc.history,
       doc.last_after_work_usage >>

\* Documents handed to DataManager.save.
SaveDocs ==
    { Document(date, money, settled, EmptyMap, EmptyMap, date) :
        date \in NearDays, money \in {0, MaxMoney}, settled \in {0} }

Prefixes(bytes) == { SubSeq(bytes, 1, n) : n \in 0..Len(bytes) }

\* open(tmp, "w"): the temporary file is created or truncated.
SaveOpen(doc) ==
    /\ save_pc = "idle"
    /\ save_pc' = "writing"
    /\ save_doc' = doc
    /\ prev_file' = canonical_file
    /\ tmp_file' = [exists |-> TRUE, bytes |-> << >>, synced |-> FALSE]
    /\ UNCHANGED << canonical_file, enginevars, lockvars, mainvars >>

\* json.dump writes the next piece of the document.
SaveWrite ==
    /\ save_pc = "writing"
    /\ Len(tmp_file.bytes) < Len(Serialize(save_doc))
    /\ tmp_file' = [tmp_file EXCEPT
                       !.bytes = Append(@, Serialize(save_doc)[Len(@) + 1])]
    /\ UNCHANGED << canonical_file, save_pc, save_doc, prev_file, enginevars, lockvars, mainvars >>

\* A bug: the temporary file is renamed without being forced to disk.
SaveFsync_skipped ==
    /\ save_pc = "writing"
    /\ tmp_file.bytes = Serialize(save_doc)
    /\ save_pc' = "synced"
    /\ UNCHANGED << tmp_file, canonical_file, save_doc, prev_file, enginevars, lockvars, mainvars >>

\* f.flush(); os.fsync(f.fileno()) once the document is written.
SaveFsync ==
    /\ save_pc = "writing"
    /\ tmp_file.bytes = Serialize(save_doc)
    /\ tmp_file' = [tmp_file EXCEPT !.synced = TRUE]
    /\ save_pc' = "synced"
    /\ UNCHANGED << canonical_file, save_doc, prev_file, enginevars, lockvars, mainvars >>

\* os.replace(tmp, data_file): atomic rename over the canonical path.
SaveReplace ==
    /\ save_pc = "synced"
    /\ canonical_file' = tmp_file
    /\ tmp_file' = NoBytes
    /\ save_pc' = "idle"
    /\ UNCHANGED << save_doc, prev_file, enginevars, lockvars, mainvars >>

\* Any step raises (disk full, permission): the file is closed as it is
\* and the exception is logged and re-raised.
SaveFail ==
    /\ save_pc # "idle"
    /\ save_pc' = "idle"
    /\ UNCHANGED << canonical_file, tmp_file, save_doc, prev_file, enginevars, lockvars, mainvars >>

\* What a crash (power loss included) leaves of a file: bytes that were not
\* forced to stable media may be lost from the end.
AfterCrash(file) ==
    IF file.synced THEN {file}
    ELSE { [file EXCEPT !.bytes = b] : b \in Prefixes(file.bytes) }

\* The process dies at any step of the save.
SaveCrash ==
    /\ save_pc # "idle"
    /\ save_pc' = "idle"
    /\ tmp_file' \in AfterCrash(tmp_file)
    /\ canonical_file' \in AfterCrash(canonical_file)
    /\ UNCHANGED << save_doc, prev_file, enginevars, lockvars, mainvars >>

\* ---------------------------------------------------------------------
\* StoragePaths (storage.py 36-65)
\* ---------------------------------------------------------------------
\* Config.LEGACY_DATA_FILE_NAMES
LEGACY_DATA_FILE_NAMES == << "fish_data_v1.5.json" >>

\* StoragePaths._legacy_files: for each name, the path in the current
\* working directory, then the path in the data directory.
_legacy_files(file_names) ==
    [i \in 1..(2 * Len(file_names)) |->
        [dir |-> IF i % 2 = 1 THEN "cwd" ELSE "data_dir",
         name |-> file_names[(i + 1) \div 2]]]

legacy_data_files == _legacy_files(LEGACY_DATA_FILE_NAMES)

\* The legacy paths (the working directory is not the data directory).
LegacyPaths == {legacy_data_files[i] : i \in DOMAIN legacy_data_files}

\* The loop of migrate_legacy_files from the i-th path on: a path without a
\* file is skipped; os.replace of the first existing one onto the target
\* ends the loop, unless it raises (failing: the paths whose os.replace
\* raises), which is swallowed and the loop goes on.
RECURSIVE migrate_from(_, _, _, _, _)
migrate_from(legacy_paths, files, target, failing, i) ==
    IF i > Len(legacy_paths) THEN [target |-> target, files |-> files]
    ELSE IF ~files[legacy_paths[i]].exists
         THEN migrate_from(legacy_paths, files, target, failing, i + 1)
    ELSE IF legacy_paths[i] \in failing
         THEN migrate_from(legacy_paths, files, target, failing, i + 1)
    ELSE [target |-> files[legacy_paths[i]],
          files |-> [files EXCEPT ![legacy_paths[i]] = NoBytes]]

\* A bug: the legacy file replaces a canonical file that exists.
migrate_legacy_files_overwriting(legacy_paths, files, target, failing) ==
    migrate_from(legacy_paths, files, target, failing, 1)

\* StoragePaths.migrate_legacy_files(legacy_paths, target_path): files are
\* the files at the legacy paths, target the file at target_path.
migrate_legacy_files(legacy_paths, files, target, failing) ==
    IF target.exists THEN [target |-> target, files |-> files]
    ELSE migrate_from(legacy_paths, files, target, failing, 1)

\* DataManager.load, its first step (storage.py 105-106): the legacy data
\* files are migrated to the data file.
MigrateData(failing) ==
    /\ LET r == migrate_legacy_files(legacy_data_files, legacy_files, canonical_file,
                                     failing)
       IN  /\ canonical_file' = r.target
           /\ legacy_files' = r.files
           /\ store_op' = IF r.target # canonical_file THEN "migrated" ELSE "not migrated"
    /\ UNCHANGED << enginevars, lockvars, tmp_file, save_pc, save_doc, prev_file,
                    corrupt_file, exit_save, warned, notified >>

Init ==
    /\ running = FALSE
    /\ episode_start_m = None
    /\ data_file = NoFile
    /\ settings_file = NoSettings
    /\ Config = apply_to_config(CHOOSE s \in SettingsChoices : s.WORK_END = 18)
    /\ current_date = 0 /\ earned_money = 0 /\ settled_date = 0
    /\ history = EmptyMap /\ last_after_work_usage = EmptyMap
    /\ base_salary_per_second = 0
    /\ is_visible = FALSE /\ boss_key_pressed = FALSE /\ is_in_tray = FALSE
    /\ is_paused = FALSE
    /\ last_update_time_m = 0 /\ last_save_time_m = 0 /\ lock_start_time_m = None
    /\ is_dirty = FALSE /\ save_requested = FALSE
    /\ last_success_m = Some(0)
    /\ lock_file = 0
    /\ pc = [p \in Procs |-> "idle"]
    /\ read_pid = [p \in Procs |-> 0]
    /\ canonical_file = NoBytes
    /\ tmp_file = NoBytes
    /\ save_pc = "idle"
    /\ save_doc = CHOOSE doc \in SaveDocs : TRUE
    /\ prev_file = NoBytes
    /\ corrupt_file = NoBytes
    /\ store_op = "none"
    /\ exit_save = [p \in Procs |-> "none"]
    /\ warned = [p \in Procs |-> FALSE]
    /\ notified = {}
    /\ legacy_files = [path \in LegacyPaths |-> NoBytes]

\* ---------------------------------------------------------------------
\* Spec: the accrual engine under the user's operations, on a Friday and
\* the Saturday after it (before work, lunch, working hours), the wall
\* clock never going back and the store working.
\* ---------------------------------------------------------------------
AccrualSteps == {0, SAVE_INTERVAL + 1}
AccrualTimes == {8, 12, 17}
AccrualDays == {5, 6}

Next ==
    \/ \E d \in AccrualSteps, today \in {t \in AccrualDays : t >= current_date},
          now_time \in AccrualTimes,
          locked_state \in LockStates, idle_time \in IdleTimes :
          Tick(d, today, now_time, locked_state, idle_time, FALSE, TRUE)
    \/ \E choice \in SettingsChoices, today \in AccrualDays :
          Startup(choice, today, 8, "Unlocked", 0, FALSE, TRUE)
    \/ TogglePause
    \/ HideToTray
    \/ RestoreFromTray
    \/ \E result \in SettingsChoices : ApplySettings(result, TRUE)
    \/ ResetToday(current_date, TRUE)

Spec == Init /\ [][Next]_vars

\* ---------------------------------------------------------------------
\* SpecRollover: day rollover and settlement under an arbitrary wall clock
\* (dates may jump forwards and backwards), with restarts and a store that
\* may fail; the workstation is unlocked and idle.
\* ---------------------------------------------------------------------
RolloverTimes == {17, 18}

NextRollover ==
    \/ \E today \in Days, now_time \in RolloverTimes :
          Tick(SAVE_INTERVAL + 1, today, now_time, "Unlocked", 3, FALSE, TRUE)
    \/ \E choice \in SettingsChoices, today \in Days, now_time \in RolloverTimes :
          Startup(choice, today, now_time, "Unlocked", 3, FALSE, TRUE)
    \/ \E today \in Days : Exit(today, TRUE)
    \/ Crash

SpecRollover == Init /\ [][NextRollover]_vars

\* ---------------------------------------------------------------------
\* Properties of the accrual engine (specification Spec)
\* ---------------------------------------------------------------------
\* The rate a tick on the date today uses (app.py 205-206).
Rate(today) == base_salary_per_second * get_rate_multiplier(Config, today)

\* d clamped to [0, MAX_DELTA].
Clamped(d) == IF d <= 0 THEN 0 ELSE IF d >= MAX_DELTA THEN MAX_DELTA ELSE d

\* C3: between two successive states with the same current_date,
\* earned_money never decreases, except across reset_today.
C3_MoneyNeverDecreasesWithinDate ==
    [][ (running /\ current_date' = current_date
            /\ ~(\E today \in Days, ok \in BOOLEAN : ResetToday(today, ok)))
        => earned_money' >= earned_money ]_vars

\* C3 witness: money has accrued on the current date and the engine is
\* paused and hidden with the total kept.
C3_Witness ==
    running /\ earned_money > 0 /\ is_paused /\ ~is_visible /\ settled_date = 0

C6_UnlockedTickAddsRateDelta ==
    (running /\ ~is_paused) =>
        \A d \in Steps, now_time \in Times, idle_time \in IdleTimes, key \in BOOLEAN :
            update_loop(Self, Config, d, current_date, now_time, "Unlocked",
                        idle_time, key, TRUE).earned_money
                = earned_money + Rate(current_date) * Clamped(d)

\* C6 amended: an unpaused, visible WorkingHours tick on the current date
\* with the probe reporting Unlocked and idle_seconds >= idle threshold adds
\* rate * clamped delta (so N such ticks add the sum).
C6_IdleUnlockedTickAddsRateDelta ==
    (running /\ ~is_paused) =>
        \A d \in Steps, now_time \in Times, idle_time \in IdleTimes, key \in BOOLEAN,
           ok \in BOOLEAN :
            (/\ get_time_status(Config, now_time) = "WORKING_HOURS"
             /\ idle_time >= Config.IDLE_THRESHOLD
             /\ boss_key(Self, key).is_visible)
            => update_loop(Self, Config, d, current_date, now_time, "Unlocked",
                           idle_time, key, ok).earned_money
                   = earned_money + Rate(current_date) * Clamped(d)

\* C6 witness: money accrued on a Saturday (weekend rate) with the probe not
\* Locked, and the tick that added it saved it.
C6_Witness ==
    /\ running /\ ~is_paused /\ is_visible
    /\ Weekday(current_date) >= 5
    /\ earned_money > 0 /\ episode_start_m = None /\ lock_start_time_m = None
    /\ data_file.money = earned_money /\ last_save_time_m = 0

\* C7 as stated: while paused, no step other than reset_today changes
\* earned_money (a tick leaves it unchanged for every probe sample and every
\* wall-clock reading).
C7_PausedTickKeepsMoney ==
    [][ (running /\ is_paused
            /\ ~(\E today \in Days, ok \in BOOLEAN : ResetToday(today, ok)))
        => earned_money' = earned_money ]_vars

\* C7 amended: while paused, a tick whose wall-clock date equals
\* current_date leaves earned_money unchanged; a paused tick on another date
\* rolls the day over and sets earned_money to 0.
C7_PausedTickKeepsMoneyWithinDate ==
    [][ (running /\ is_paused
            /\ ~(\E today \in Days, ok \in BOOLEAN : ResetToday(today, ok)))
        => IF current_date' = current_date
           THEN earned_money' = earned_money
           ELSE earned_money' = 0 ]_vars

\* C7 witness: paused with money on the books, after a paused tick (which
\* clears the lock timer although the probe reports Locked).
C7_Witness ==
    /\ running /\ is_paused /\ is_visible /\ earned_money > 0
    /\ episode_start_m # None /\ 0 - episode_start_m[1] > 0
    /\ lock_start_time_m = None

\* ---------------------------------------------------------------------
\* Properties of day rollover and settlement (specification SpecRollover)
\* ---------------------------------------------------------------------
\* The document a successful save of the application w writes on today.
DocumentOf(w, today) ==
    Document(w.current_date, w.earned_money, w.settled_date, w.history,
             w.last_after_work_usage, today)

\* Whether date lies in the retention window that ends on today.
InRetention(date, today) == date >= today - (HISTORY_RETENTION_DAYS - 1)

\* C2: a date whose history entry has been written is never written again:
\* no tick, whatever the wall clock shows, writes history[D] for a date D
\* already recorded in history.
C2_HistoryWrittenOnce ==
    running =>
        \A today \in Days, now_time \in Times :
            update_loop(Self, Config, 0, today, now_time, "Unlocked", 3, FALSE, TRUE).writes
                \cap DOMAIN history = {}

\* C10: settled_date <= current_date in every state of the running engine
\* (the empty settled_date, 0, is the smallest).
C10_SettledNotAfterCurrent ==
    running => settled_date <= current_date

\* C8 as stated: a tick on a date other than current_date, the old date not
\* yet settled, leaves history[old date] = old earned_money, the old date (or,
\* after the post-work trigger of the same tick, today) settled,
\* current_date = today, earned_money = 0 and a forced save requested or
\* done; if the old date was settled already, its entry is not written.
C8_DateChangeRecordsOldDay ==
    running =>
        \A today \in Days \ {current_date}, now_time \in Times, d \in Steps,
           locked_state \in LockStates, ok \in BOOLEAN :
            LET r == update_loop(Self, Config, d, today, now_time, locked_state,
                                 3, FALSE, ok)
            IN  /\ r.current_date = today
                /\ r.earned_money = 0
                /\ IF ok THEN r.data_file = DocumentOf(r, today) ELSE r.save_requested
                /\ IF settled_date # current_date
                   THEN /\ current_date \in DOMAIN r.history
                        /\ r.history[current_date] = earned_money
                        /\ r.settled_date \in {current_date, today}
                   ELSE current_date \notin r.writes

\* C8 amended: as C8, but history[old date] = old earned_money is left only
\* when the old date lies inside the retention window ending today (an older
\* entry is pruned by the same append and is absent from history); and
\* settled_date ends as the old date when the tick is before work_end, as
\* today (with history[today] = 0 written too) when it is at or after.
C8_DateChangeRecordsOldDayInRetention ==
    running =>
        \A today \in Days \ {current_date}, now_time \in Times, d \in Steps,
           locked_state \in LockStates, ok \in BOOLEAN :
            LET r == update_loop(Self, Config, d, today, now_time, locked_state,
                                 3, FALSE, ok)
            IN  /\ r.current_date = today
                /\ r.earned_money = 0
                /\ IF ok THEN r.data_file = DocumentOf(r, today) /\ ~r.save_requested
                         ELSE r.save_requested /\ r.data_file = data_file
                /\ IF settled_date # current_date
                   THEN /\ current_date \in r.writes
                        /\ IF InRetention(current_date, today)
                           THEN /\ current_date \in DOMAIN r.history
                                /\ r.history[current_date] = earned_money
                           ELSE current_date \notin DOMAIN r.history
                        /\ r.settled_date =
                              IF now_time >= Config.WORK_END THEN today ELSE current_date
                   ELSE /\ current_date \notin r.writes
                        /\ r.writes = IF now_time >= Config.WORK_END THEN {today} ELSE {}
                /\ now_time >= Config.WORK_END
                       => today \in DOMAIN r.history /\ r.history[today] = 0

\* C8 witness: a day with money on it was rolled over: it is settled, in
\* history with its total, the new day starts at 0 and the tick saved it.
C8_Witness ==
    /\ running /\ earned_money = 0
    /\ settled_date # 0 /\ settled_date # current_date
    /\ settled_date \in DOMAIN history /\ history[settled_date] > 0
    /\ ~save_requested /\ ~is_dirty
    /\ data_file.date = current_date /\ data_file.settled_date = settled_date
    /\ data_file.history = history

\* C9: a tick at or after work_end on the current date, that date not yet
\* settled, sets history[current_date] = earned_money and settled_date =
\* current_date and leaves earned_money and current_date unchanged.
C9_PostWorkSettlementKeepsTotal ==
    (running /\ settled_date # current_date) =>
        \A now_time \in {t \in Times : t >= Config.WORK_END}, d \in Steps,
           locked_state \in LockStates, idle_time \in IdleTimes, key \in BOOLEAN,
           ok \in BOOLEAN :
            LET r == update_loop(Self, Config, d, current_date, now_time, locked_state,
                                 idle_time, key, ok)
            IN  /\ current_date \in DOMAIN r.history
                /\ r.history[current_date] = earned_money
                /\ r.settled_date = current_date
                /\ r.earned_money = earned_money
                /\ r.current_date = current_date

\* C9 witness: the current date is settled with a positive running total,
\* which is still on the books.
C9_Witness ==
    /\ running /\ settled_date = current_date /\ earned_money > 0
    /\ current_date \in DOMAIN history /\ history[current_date] = earned_money

\* ---------------------------------------------------------------------
\* SpecLock: instances starting, exiting and being killed.
\* ---------------------------------------------------------------------
NextLock ==
    \/ \E p \in Procs : Launch(p)
    \/ \E p \in Procs : TryCreate(p)
    \/ \E p \in Procs : ReadPid(p)
    \/ \E p \in Procs : CheckOwner(p)
    \/ \E p \in Procs : RemoveStale(p)
    \/ \E p \in Procs : RetryCreate(p)
    \/ \E p \in Procs : Release(p)
    \/ \E p \in Procs : Kill(p)

SpecLock == Init /\ [][NextLock]_vars

\* C1: at most one process at a time holds the instance lock (acquire()
\* returned true and the process has neither released nor died).
C1_AtMostOneInstance ==
    Cardinality({p \in Procs : pc[p] = "held"}) <= 1

\* ---------------------------------------------------------------------
\* SpecSave: saves of arbitrary documents, failing or crashing anywhere.
\* ---------------------------------------------------------------------
NextSave ==
    \/ \E doc \in SaveDocs : SaveOpen(doc)
    \/ SaveWrite
    \/ SaveFsync
    \/ SaveReplace
    \/ SaveFail
    \/ SaveCrash

SpecSave == Init /\ [][NextSave]_vars

\* C4: at every step of a save, and after a failure or crash at any step,
\* the canonical file is either exactly as it was when the save began or
\* the complete new document; it never holds a partly written document.
C4_CanonicalNeverPartial ==
    /\ canonical_file.exists =>
           \E doc \in SaveDocs : canonical_file.bytes = Serialize(doc)
    /\ \/ canonical_file = prev_file
       \/ /\ canonical_file.exists
          /\ canonical_file.bytes = Serialize(save_doc)

\* C4 witness: a save has died half way: the temporary file holds part of
\* a new document while the canonical file still holds the whole old one.
C4_Witness ==
    /\ save_pc = "idle"
    /\ canonical_file.exists
    /\ tmp_file.exists
    /\ Len(tmp_file.bytes) > 0
    /\ Len(tmp_file.bytes) < Len(Serialize(save_doc))
    /\ canonical_file.bytes # Serialize(save_doc)

\* ---------------------------------------------------------------------
\* SpecStore: DataManager.save and DataManager.load on the file's bytes,
\* from any state in memory: history and last_after_work_usage with keys
\* that are no dates, dates before the retention window, the first day of
\* the window, today and a future date; the file may be damaged between a
\* save and a load.
\* ---------------------------------------------------------------------
StoreToday == FarDay
StoreDays == {StoreToday, StoreToday + 1}
StoreKeys == {0, StoreToday - HISTORY_RETENTION_DAYS,
              StoreToday - (HISTORY_RETENTION_DAYS - 1), StoreToday, StoreToday + 2}
StoreMaps(keys, value) == { [k \in K |-> value] : K \in SUBSET keys }

\* A value that json.load returns for a JSON array (not an object).
JsonArray == << "x" >>
IsObject(v) == v # JsonArray

\* json.load raises: the bytes are not one complete JSON document.
json_load_raises(bytes) == Len(bytes) # Len(Serialize(NoFile))

\* json.load of a complete document, and the data.get calls of load.
Deserialize(bytes) ==
    [ exists |-> TRUE, date |-> bytes[2], money |-> bytes[3], settled_date |-> bytes[4],
      history |-> bytes[5], last_after_work_usage |-> bytes[6] ]

\* A bug: a file that does not parse is left where it is.
load_file_without_quarantine(file, today, renamed) ==
    IF ~file.exists
    THEN [state |-> load(NoFile, today), file |-> file, quarantined |-> FALSE]
    ELSE IF json_load_raises(file.bytes)
    THEN [state |-> load(NoFile, today), file |-> file, quarantined |-> FALSE]
    ELSE [state |-> load(Deserialize(file.bytes), today), file |-> file,
          quarantined |-> FALSE]

\* DataManager.load on the canonical file.  An exception while parsing
\* renames the file aside (renamed: whether os.replace succeeds; a failure
\* is swallowed) and gives the defaults.  The types of date, settled_date,
\* history and last_after_work_usage are not examined.
load_file(file, today, renamed) ==
    IF ~file.exists
    THEN [state |-> load(NoFile, today), file |-> file, quarantined |-> FALSE]
    ELSE IF json_load_raises(file.bytes)
    THEN [state |-> load(NoFile, today),
          file |-> IF renamed THEN NoBytes ELSE file, quarantined |-> renamed]
    ELSE [state |-> load(Deserialize(file.bytes), today), file |-> file,
          quarantined |-> FALSE]

\* The bytes DataManager.save leaves at the canonical path.
SavedFile(w, today) ==
    [exists |-> TRUE, bytes |-> Serialize(save(w, today, TRUE).data_file), synced |-> TRUE]

StoreFrame ==
    UNCHANGED << base_salary_per_second, is_visible, boss_key_pressed, is_in_tray,
                 is_paused, last_update_time_m, last_save_time_m, lock_start_time_m,
                 is_dirty, save_requested, last_success_m, Config, data_file, settings_file, running,
                 episode_start_m, lockvars, tmp_file, save_pc, save_doc, prev_file,
                 exit_save, warned, notified, legacy_files >>

\* DataManager.save of the state in memory; it raises (ok = FALSE) on an I/O
\* error and always when history or last_after_work_usage is no dict.
StoreSave(today, ok) ==
    /\ ok => IsObject(history) /\ IsObject(last_after_work_usage)
    /\ canonical_file' = IF ok THEN SavedFile(Self, today) ELSE canonical_file
    /\ store_op' = IF ok THEN "save" ELSE "save failed"
    /\ UNCHANGED << current_date, earned_money, settled_date, history,
                    last_after_work_usage, corrupt_file >>
    /\ StoreFrame

\* DataManager.load into memory, after its migration step (MigrateData; no
\* legacy file exists here).
StoreLoad(today, renamed) ==
    /\ LET l == load_file(canonical_file, today, renamed)
       IN  /\ current_date' = l.state.current_date
           /\ earned_money' = l.state.earned_money
           /\ settled_date' = l.state.settled_date
           /\ history' = l.state.history
           /\ last_after_work_usage' = l.state.last_after_work_usage
           /\ canonical_file' = l.file
           /\ corrupt_file' = IF l.quarantined THEN canonical_file ELSE corrupt_file
    /\ store_op' = "load"
    /\ StoreFrame

\* The data file is damaged outside the program: cut short, or rewritten
\* as JSON whose "history" is an array.
StoreDamage ==
    /\ canonical_file.exists
    /\ ~json_load_raises(canonical_file.bytes)
    /\ IsObject(canonical_file.bytes[5])
    /\ \/ \E n \in {0, 3} :
            canonical_file' = [canonical_file EXCEPT !.bytes = SubSeq(@, 1, n)]
       \/ canonical_file' = [canonical_file EXCEPT !.bytes[5] = JsonArray]
    /\ store_op' = "damage"
    /\ UNCHANGED << current_date, earned_money, settled_date, history,
                    last_after_work_usage, corrupt_file >>
    /\ StoreFrame

InitStore ==
    /\ running = TRUE
    /\ episode_start_m = None
    /\ data_file = NoFile
    /\ settings_file = NoSettings
    /\ Config = apply_to_config(CHOOSE s \in SettingsChoices : s.WORK_END = 18)
    /\ current_date \in {StoreToday - 1, StoreToday}
    /\ earned_money \in {0, MaxMoney}
    /\ settled_date \in {0, StoreToday - 1}
    /\ history \in StoreMaps(StoreKeys, 1)
    /\ last_after_work_usage \in StoreMaps({0, StoreToday - HISTORY_RETENTION_DAYS}, 18)
    /\ base_salary_per_second = calculate_base_rate(Config)
    /\ is_visible = TRUE /\ boss_key_pressed = FALSE /\ is_in_tray = FALSE
    /\ is_paused = FALSE
    /\ last_update_time_m = 0 /\ last_save_time_m = 0 /\ lock_start_time_m = None
    /\ is_dirty = FALSE /\ save_requested = FALSE
    /\ last_success_m = Some(0)
    /\ lock_file = 0
    /\ pc = [p \in Procs |-> "idle"]
    /\ read_pid = [p \in Procs |-> 0]
    /\ canonical_file = NoBytes
    /\ tmp_file = NoBytes
    /\ save_pc = "idle"
    /\ save_doc = CHOOSE doc \in SaveDocs : TRUE
    /\ prev_file = NoBytes
    /\ corrupt_file = NoBytes
    /\ store_op = "none"
    /\ exit_save = [p \in Procs |-> "none"]
    /\ warned = [p \in Procs |-> FALSE]
    /\ notified = {}
    /\ legacy_files = [path \in LegacyPaths |-> NoBytes]

NextStore ==
    \/ \E today \in StoreDays, ok \in BOOLEAN : StoreSave(today, ok)
    \/ \E today \in StoreDays, renamed \in BOOLEAN : StoreLoad(today, renamed)
    \/ StoreDamage

SpecStore == InitStore /\ [][NextStore]_vars

\* The five fields of the state in memory.
StateInMemory ==
    [ current_date |-> current_date, earned_money |-> earned_money,
      settled_date |-> settled_date, history |-> history,
      last_after_work_usage |-> last_after_work_usage ]

\* C11: for every state s in memory and every day of the save and of the
\* load, load() of the file save(s) wrote returns s with history and
\* last_after_work_usage replaced by their retention-pruned versions (as of
\* the day of the save): date, money and settled_date are identical, and
\* nothing is quarantined.
C11_SaveLoadRoundTrip ==
    (IsObject(history) /\ IsObject(last_after_work_usage)) =>
        \A today \in StoreDays, later \in StoreDays, renamed \in BOOLEAN :
            LET l == load_file(SavedFile(Self, today), later, renamed)
            IN  /\ ~l.quarantined
                /\ l.file = SavedFile(Self, today)
                /\ l.state = [StateInMemory EXCEPT
                       !.history = _prune_date_map(history, today),
                       !.last_after_work_usage =
                           _prune_date_map(last_after_work_usage, today)]

\* C11 witness: a state was saved with an old history entry and loaded
\* back: memory equals the file, the old entry is gone, the rest is there.
C11_Witness ==
    /\ store_op = "load"
    /\ canonical_file.exists /\ ~json_load_raises(canonical_file.bytes)
    /\ StateInMemory = load(Deserialize(canonical_file.bytes), StoreToday)
    /\ IsObject(history)
    /\ DOMAIN history = {0, StoreToday - (HISTORY_RETENTION_DAYS - 1), StoreToday}
    /\ earned_money = MaxMoney /\ settled_date = StoreToday - 1
    /\ current_date = StoreToday - 1

\* A data file that is unparsable (no complete JSON document) or malformed
\* (a complete document whose history or last_after_work_usage is no
\* object).
Malformed(file) ==
    /\ file.exists
    /\ \/ json_load_raises(file.bytes)
       \/ ~IsObject(file.bytes[5])
       \/ ~IsObject(file.bytes[6])

\* C12: load() of an unparsable or malformed data file returns the default
\* empty state (today, 0, "", {}, {}) and moves the file aside: the
\* canonical path no longer holds it.
C12_CorruptFileQuarantined ==
    \A today \in StoreDays, renamed \in BOOLEAN :
        Malformed(canonical_file) =>
            LET l == load_file(canonical_file, today, renamed)
            IN  /\ l.state = [current_date |-> today, earned_money |-> 0,
                              settled_date |-> 0, history |-> EmptyMap,
                              last_after_work_usage |-> EmptyMap]
                /\ l.quarantined
                /\ l.file = NoBytes

\* The keys of the two maps in the document a save on the day today writes.
SavedKeys(today) ==
    LET doc == Deserialize(SavedFile(Self, today).bytes)
    IN  [history |-> DOMAIN doc.history, usage |-> DOMAIN doc.last_after_work_usage]

\* C18 as stated: after a successful save every key of history and of
\* last_after_work_usage in the document is a calendar date inside the
\* retention window, the HISTORY_RETENTION_DAYS days ending today.
C18_SavedKeysInWindow ==
    (IsObject(history) /\ IsObject(last_after_work_usage)) =>
        \A today \in StoreDays :
            \A k \in SavedKeys(today).history \cup SavedKeys(today).usage :
                /\ ParsesAsDate(k)
                /\ today - (HISTORY_RETENTION_DAYS - 1) <= k
                /\ k <= today

\* C18 amended: the saved document holds exactly the keys of the maps in
\* memory except the calendar dates before the first day of the retention
\* window; keys that are no dates and dates after today are written too.
C18_SavedKeysNotBeforeWindow ==
    (IsObject(history) /\ IsObject(last_after_work_usage)) =>
        \A today \in StoreDays :
            LET first == today - (HISTORY_RETENTION_DAYS - 1)
                Kept(m) == {k \in DOMAIN m : k <= 0 \/ k >= first}
            IN  /\ SavedKeys(today).history = Kept(history)
                /\ SavedKeys(today).usage = Kept(last_after_work_usage)

\* C18 witness: a save has just written a history that held a key that is
\* no date, an old date, dates in the window and a future date: all but
\* the old date are in the file.
C18_Witness ==
    /\ store_op = "save"
    /\ IsObject(history)
    /\ DOMAIN history = StoreKeys
    /\ ~json_load_raises(canonical_file.bytes)
    /\ DOMAIN canonical_file.bytes[5] = StoreKeys \ {StoreToday - HISTORY_RETENTION_DAYS}
    /\ DOMAIN last_after_work_usage = {0, StoreToday - HISTORY_RETENTION_DAYS}
    /\ DOMAIN canonical_file.bytes[6] = {0}

\* ---------------------------------------------------------------------
\* SpecLockFair: SpecLock where a process inside acquire() goes on to its
\* next statement (acquire is straight-line code of a running process).
\* ---------------------------------------------------------------------
AcquireStep(p) ==
    TryCreate(p) \/ ReadPid(p) \/ CheckOwner(p) \/ RemoveStale(p) \/ RetryCreate(p)

SpecLockFair == SpecLock /\ \A p \in Procs : WF_vars(AcquireStep(p))

InAcquire(p) == pc[p] \in {"create", "read", "check", "remove", "retry"}

\* The process recorded in a lock file is gone (or the pid is invalid).
OwnerDead(pid) == pid <= 0 \/ pc[pid] \in {"idle", "exited", "dead"}

\* C13: a process that finds the lock file recording a dead owner removes
\* the file and retries the exclusive create; the retry gives it the lock
\* unless another process has created the file in the meantime, and is not
\* repeated: after it acquire() has returned.  Every acquire() terminates.
C13_StaleLockReclaimedOnce ==
    /\ [][\A p \in Procs :
            /\ (pc[p] = "check" /\ pc'[p] # "check" /\ OwnerDead(read_pid[p]))
                   => pc'[p] = "remove"
            /\ (pc[p] = "remove" /\ pc'[p] # "remove")
                   => pc'[p] = "retry" /\ lock_file' = 0
            /\ (pc[p] = "retry" /\ pc'[p] # "retry")
                   => \/ pc'[p] = "held" /\ lock_file' = p
                      \/ pc'[p] = "failed" /\ lock_file \in Procs \ {p}
         ]_vars
    /\ \A p \in Procs : InAcquire(p) ~> ~InAcquire(p)

\* C13 witness: a process holds the lock it took over from a killed owner.
C13_Witness ==
    \E p \in Procs :
        /\ pc[p] = "held" /\ lock_file = p
        /\ read_pid[p] \in Procs \ {p} /\ pc[read_pid[p]] = "dead"

\* ---------------------------------------------------------------------
\* SpecMain: main() of several processes: ensure_single_instance, then the
\* application (settings, FishMoneyApp, ticks), on_exit and the atexit
\* hook.  The memory of one application is modelled: the instance that is
\* running.  pc[p] goes on from "held" to "running" (mainloop), "exiting"
\* (mainloop has returned) and "exited" (the atexit hook has run).
\* ---------------------------------------------------------------------
MainDay == 5
MainTime == 17
\* The processes that are started: a first instance and a second one.
MainProcs == {1, 2}

\* A bug: main() goes on although ensure_single_instance returned None.
MainStartup_ignoring_acquire(p, choice, ok) ==
    /\ pc[p] \in {"held", "failed"}
    /\ ~running
    /\ LET settings == IF settings_file.exists THEN settings_file.settings ELSE choice
           cfg == apply_to_config(settings)
           w == Rebase(update_loop(NewApp(data_file, cfg, MainDay), cfg, 0, MainDay,
                                   MainTime, "Unlocked", 3, FALSE, ok))
       IN  /\ settings_file' = [exists |-> TRUE, settings |-> settings]
           /\ Config' = cfg
           /\ SetSelf(w)
    /\ running' = TRUE
    /\ episode_start_m' = None
    /\ pc' = [pc EXCEPT ![p] = "running"]
    /\ UNCHANGED << lock_file, read_pid, savevars, mainvars >>

\* main() after ensure_single_instance returned the lock (app.py 343-361):
\* settings loaded or chosen and saved, applied, FishMoneyApp constructed
\* (load, first tick), mainloop entered.
MainStartup(p, choice, ok) ==
    /\ pc[p] = "held"
    /\ ~running
    /\ LET settings == IF settings_file.exists THEN settings_file.settings ELSE choice
           cfg == apply_to_config(settings)
           w == Rebase(update_loop(NewApp(data_file, cfg, MainDay), cfg, 0, MainDay,
                                   MainTime, "Unlocked", 3, FALSE, ok))
       IN  /\ settings_file' = [exists |-> TRUE, settings |-> settings]
           /\ Config' = cfg
           /\ SetSelf(w)
    /\ running' = TRUE
    /\ episode_start_m' = None
    /\ pc' = [pc EXCEPT ![p] = "running"]
    /\ UNCHANGED << lock_file, read_pid, savevars, mainvars >>

\* A bug: the final save is made only when the state is dirty.
OnExit_only_when_dirty(p, today, ok) ==
    /\ pc[p] = "running"
    /\ running
    /\ IF is_dirty
       THEN /\ data_file' = save(Self, today, ok).data_file
            /\ exit_save' = [exit_save EXCEPT ![p] = IF ok THEN "ok" ELSE "failed"]
            /\ warned' = [warned EXCEPT ![p] = ~ok]
            /\ notified' = IF ok THEN notified ELSE notified \cup {"exit"}
       ELSE UNCHANGED << data_file, exit_save, warned, notified >>
    /\ NotRunning
    /\ pc' = [pc EXCEPT ![p] = "exiting"]
    /\ UNCHANGED << Config, settings_file, lock_file, read_pid, savevars,
                    corrupt_file, store_op, legacy_files >>

\* ui.py on_exit: DataManager.save of the current state; when it raises the
\* failure is logged and the user warned; then the tray icon is stopped and
\* the window destroyed, which ends mainloop and main().
OnExit(p, today, ok) ==
    /\ pc[p] = "running"
    /\ running
    /\ data_file' = save(Self, today, ok).data_file
    /\ exit_save' = [exit_save EXCEPT ![p] = IF ok THEN "ok" ELSE "failed"]
    /\ warned' = [warned EXCEPT ![p] = ~ok]
    /\ notified' = IF ok THEN notified ELSE notified \cup {"exit"}
    /\ NotRunning
    /\ pc' = [pc EXCEPT ![p] = "exiting"]
    /\ UNCHANGED << Config, settings_file, lock_file, read_pid, savevars,
                    corrupt_file, store_op, legacy_files >>

\* The interpreter exits: the hook atexit.register(lock.release) runs and
\* the lock file is removed.
AtExit(p) ==
    /\ pc[p] = "exiting"
    /\ lock_file' = 0
    /\ pc' = [pc EXCEPT ![p] = "exited"]
    /\ UNCHANGED << read_pid, enginevars, savevars, mainvars >>

NextMain ==
    \/ \E p \in MainProcs : Launch(p)
    \/ \E p \in MainProcs : TryCreate(p)
    \/ \E p \in MainProcs : ReadPid(p)
    \/ \E p \in MainProcs : CheckOwner(p)
    \/ \E p \in MainProcs : RemoveStale(p)
    \/ \E p \in MainProcs : RetryCreate(p)
    \/ \E p \in MainProcs : Kill(p)
    \/ \E p \in MainProcs, choice \in SettingsChoices, ok \in BOOLEAN :
          MainStartup(p, choice, ok)
    \/ Tick(MAX_DELTA, MainDay, MainTime, "Unlocked", 3, FALSE, TRUE)
    \/ \E p \in MainProcs, ok \in BOOLEAN : OnExit(p, MainDay, ok)
    \/ \E p \in MainProcs : AtExit(p)

SpecMain == Init /\ [][NextMain]_vars

\* The mainloop has returned: the interpreter goes on to exit.
SpecMainFair == SpecMain /\ \A p \in MainProcs : WF_vars(AtExit(p))

\* C14: a process whose acquire() finds the recorded owner alive gets
\* false: that step leaves the lock file, the data file, its quarantine
\* copy and the settings file as they are, and the process does nothing
\* afterwards (main returns): it never loads, migrates, quarantines or
\* writes.
C14_FailedAcquireAborts ==
    [][\A p \in Procs :
         /\ (pc[p] = "check" /\ pc'[p] # "check" /\ ~OwnerDead(read_pid[p]))
               => /\ pc'[p] = "failed"
                  /\ UNCHANGED << lock_file, data_file, settings_file, corrupt_file,
                                  canonical_file >>
         /\ pc[p] = "failed" => pc'[p] = "failed"
      ]_vars

\* C14 witness: a process was refused while another instance is running
\* with its settings saved; the lock file is the running instance's.
C14_Witness ==
    \E p \in Procs, q \in Procs :
        /\ pc[p] = "failed" /\ read_pid[p] = q
        /\ pc[q] = "running" /\ lock_file = q
        /\ running /\ settings_file.exists

\* C15: on_exit attempts the final save whether or not the state is dirty,
\* and a successful one writes the current state; the lock is released
\* only after that attempt has completed; when it failed the user has been
\* warned; and the process goes on to terminate and release the lock.
C15_FinalSaveBeforeRelease ==
    /\ [][\A p \in Procs :
            /\ (pc[p] = "running" /\ pc'[p] # "running")
                  => /\ pc'[p] = "exiting"
                     /\ exit_save'[p] \in {"ok", "failed"}
                     /\ exit_save'[p] = "ok" => data_file' = DocumentOf(Self, MainDay)
                     /\ exit_save'[p] = "failed" => warned'[p] /\ data_file' = data_file
                     /\ lock_file' = lock_file
            /\ (pc'[p] = "exited" /\ pc[p] # "exited")
                  => exit_save[p] \in {"ok", "failed"} /\ lock_file' = 0
         ]_vars
    /\ \A p \in Procs : (pc[p] = "exiting") ~> (pc[p] = "exited")

\* C15 witness: an instance has exited after a final save that failed: the user was warned and the lock is released.
C15_Witness ==
    \E p \in Procs :
        /\ pc[p] = "exited" /\ exit_save[p] = "failed" /\ warned[p]
        /\ lock_file = 0 /\ ~running

\* ---------------------------------------------------------------------
\* SpecPolicy: the save policy of the ticks: ticks one second and one save
\* interval apart, in the afternoon of a Friday and of the Saturday after
\* it, a store that may fail, the window hidden and shown, the day's total
\* reset.
\* ---------------------------------------------------------------------
PolicySteps == {MAX_DELTA, SAVE_INTERVAL}
PolicyDays == {5, 6}
PolicyTimes == {17}

NextPolicy ==
    \/ \E d \in PolicySteps, today \in {t \in PolicyDays : t >= current_date},
          now_time \in PolicyTimes, idle_time \in IdleTimes, ok \in BOOLEAN :
          Tick(d, today, now_time, "Unlocked", idle_time, FALSE, ok)
    \/ \E choice \in SettingsChoices :
          Startup(choice, 5, 17, "Unlocked", 0, FALSE, TRUE)
    \/ HideToTray
    \/ RestoreFromTray
    \/ \E ok \in BOOLEAN : ResetToday(current_date, ok)

SpecPolicy == Init /\ [][NextPolicy]_vars

\* C16 as stated: a tick calls DataManager.save exactly when, at its call
\* of maybe_save, save_requested is set, or is_dirty is set and more than
\* SAVE_INTERVAL has passed since the last save that succeeded; with
\* neither flag set it writes nothing.
C16_SaveInvokedWhenDue ==
    running =>
        \A d \in PolicySteps, today \in PolicyDays, now_time \in PolicyTimes,
           idle_time \in IdleTimes, ok \in BOOLEAN :
            LET b == update_before_save(Self, Config, d, today, now_time, "Unlocked",
                                        idle_time, FALSE)
                r == update_loop(Self, Config, d, today, now_time, "Unlocked",
                                 idle_time, FALSE, ok)
                now_m == last_update_time_m + d
            IN  /\ (r.saves = 1) <=>
                       \/ b.save_requested
                       \/ b.is_dirty /\ now_m - b.last_success_m[1] > SAVE_INTERVAL
                /\ r.saves \in {0, 1}
                /\ (~b.is_dirty /\ ~b.save_requested)
                       => r.saves = 0 /\ r.data_file = data_file

\* C16 amended: as C16, the time being counted from last_save_time_m: the
\* later of the construction of the application, the last date-change
\* rollover and the last save a tick made with success (a save made by
\* reset_today is not counted).
C16_SaveInvokedWhenDueSinceTickSave ==
    running =>
        \A d \in PolicySteps, today \in PolicyDays, now_time \in PolicyTimes,
           idle_time \in IdleTimes, ok \in BOOLEAN :
            LET b == update_before_save(Self, Config, d, today, now_time, "Unlocked",
                                        idle_time, FALSE)
                r == update_loop(Self, Config, d, today, now_time, "Unlocked",
                                 idle_time, FALSE, ok)
                now_m == last_update_time_m + d
            IN  /\ (r.saves = 1) <=>
                       \/ b.save_requested
                       \/ b.is_dirty /\ now_m - b.last_save_time_m > SAVE_INTERVAL
                /\ r.saves \in {0, 1}
                /\ (~b.is_dirty /\ ~b.save_requested)
                       => r.saves = 0 /\ r.data_file = data_file

\* C16 witness: a tick has just saved money earned on the day, the day not
\* being settled (the save was due by the interval, not forced).
C16_Witness ==
    /\ running /\ ~is_dirty /\ ~save_requested
    /\ last_save_time_m = 0 /\ last_update_time_m = 0
    /\ earned_money > 0 /\ settled_date = 0
    /\ data_file.exists /\ data_file.money = earned_money

\* C17: a tick whose save fails makes one call of DataManager.save and
\* leaves is_dirty, save_requested, last_save_time_m and the file as they
\* were before the call; the next tick calls DataManager.save again; and a
\* tick clears a flag only with a save that succeeded and wrote the state.
C17_FailedSaveRetriedNextTick ==
    running =>
        \A d \in PolicySteps, today \in PolicyDays, now_time \in PolicyTimes,
           idle_time \in IdleTimes :
            LET b == update_before_save(Self, Config, d, today, now_time, "Unlocked",
                                        idle_time, FALSE)
                r == update_loop(Self, Config, d, today, now_time, "Unlocked",
                                 idle_time, FALSE, FALSE)
                s == update_loop(Self, Config, d, today, now_time, "Unlocked",
                                 idle_time, FALSE, TRUE)
                next == [Rebase(r) EXCEPT !.saves = 0, !.writes = {}]
            IN  /\ r.saves <= 1
                /\ r.saves = 1 =>
                     /\ r.is_dirty = b.is_dirty
                     /\ r.save_requested = b.save_requested
                     /\ r.last_save_time_m = b.last_save_time_m
                     /\ r.data_file = data_file
                     /\ \A d2 \in PolicySteps, today2 \in PolicyDays, idle2 \in IdleTimes,
                           ok2 \in BOOLEAN :
                            update_loop(next, Config, d2, today2, 17, "Unlocked",
                                        idle2, FALSE, ok2).saves = 1
                /\ ~r.is_dirty => ~b.is_dirty
                /\ ~r.save_requested => ~b.save_requested
                /\ (b.is_dirty /\ ~s.is_dirty) \/ (b.save_requested /\ ~s.save_requested)
                     => s.saves = 1 /\ s.data_file = DocumentOf(s, today)

\* C17 witness: the forced save of a tick has failed: the flags are still
\* set and the file does not hold the state.
C17_Witness ==
    /\ running /\ is_dirty /\ save_requested
    /\ data_file # DocumentOf(Self, current_date)

\* ---------------------------------------------------------------------
\* The lock timer outside locked periods (specification Spec)
\* ---------------------------------------------------------------------
\* C19: after every tick on which the probe reports a lock state other than
\* Locked, and after every tick whose time status is Lunch or OffWork,
\* lock_start_time_m is None, the window being visible or hidden, the
\* application paused or not.
C19_LockTimerClearedOffLock ==
    running =>
        \A d \in AccrualSteps, today \in {t \in AccrualDays : t >= current_date},
           now_time \in AccrualTimes, locked_state \in LockStates,
           idle_time \in IdleTimes :
            LET r == update_loop(Self, Config, d, today, now_time, locked_state,
                                 idle_time, FALSE, TRUE)
            IN  (\/ locked_state # "Locked"
                 \/ get_time_status(Config, now_time) \in {"LUNCH", "OFF_WORK"})
                    => r.lock_start_time_m = None

\* C20: on a visible, unpaused tick in working hours whose lock state is
\* Unknown or Unlocked the lock timer is cleared and earned_money grows by
\* rate x delta when idle_time >= IDLE_THRESHOLD and stays otherwise, where
\* the growth is counted from the value the rollover step of the tick
\* leaves and delta is the delta of the tick (on a new date: from 0, with
\* delta 0, the rollover having set last_update_time_m to now); a running
\* lock timer has no influence on the result, and Unknown gives what
\* Unlocked gives.
C20_UnknownOrUnlockedAccruesOnIdle ==
    (running /\ is_visible /\ ~is_paused) =>
        \A d \in AccrualSteps, today \in {t \in AccrualDays : t >= current_date},
           now_time \in AccrualTimes, locked_state \in {"Unknown", "Unlocked"},
           idle_time \in IdleTimes :
            LET r == update_loop(Self, Config, d, today, now_time, locked_state,
                                 idle_time, FALSE, TRUE)
                untimed == update_loop([Self EXCEPT !.lock_start_time_m = None], Config, d,
                                       today, now_time, locked_state, idle_time,
                                       FALSE, TRUE)
                unlocked == update_loop(Self, Config, d, today, now_time, "Unlocked",
                                        idle_time, FALSE, TRUE)
                before == IF today = current_date THEN earned_money ELSE 0
                delta == IF today = current_date THEN Clamped(d) ELSE 0
            IN  get_time_status(Config, now_time) = "WORKING_HOURS" =>
                    /\ r.lock_start_time_m = None
                    /\ r.earned_money =
                          IF idle_time >= Config.IDLE_THRESHOLD
                          THEN before + Rate(today) * delta
                          ELSE before
                    /\ r = untimed
                    /\ r = unlocked

\* C20 witness: a visible, unpaused tick whose lock state was not Locked
\* has added money: no locked episode, the timer clear, the total up.
C20_Witness ==
    /\ running /\ is_visible /\ ~is_paused
    /\ episode_start_m = None /\ lock_start_time_m = None
    /\ earned_money = MaxMoney /\ current_date = 5
    /\ Config.WORK_END = 18

\* ---------------------------------------------------------------------
\* The rate of a tick (specification Spec)
\* ---------------------------------------------------------------------
\* A Monday, the Friday and the Saturday of the model, and a Sunday.
RateDays == {1, 5, 6, 7}

\* The base rate per second as the settings in force define it.
BaseRateOf(cfg) ==
    (cfg.MONTHLY_SALARY \div cfg.WORK_DAYS_PER_MONTH) \div (cfg.WORK_HOURS_PER_DAY * 3600)

\* C21: a visible, unpaused tick in working hours with the workstation not
\* locked and idle for the threshold adds base_rate x delta when the date
\* is a Monday to Friday and base_rate x weekend_multiplier x delta when it
\* is a Saturday or Sunday, base_rate being (monthly_salary /
\* work_days_per_month) / (work_hours_per_day x 3600) of the settings in
\* force; with weekend_multiplier = 2 that is twice the weekday increment
\* for the same delta.
C21_IncrementByWeekdayClass ==
    (running /\ is_visible /\ ~is_paused) =>
        \A day \in RateDays, d \in AccrualSteps, now_time \in AccrualTimes,
           locked_state \in {"Unknown", "Unlocked"} :
            LET w == [Self EXCEPT !.current_date = day]
                r == update_loop(w, Config, d, day, now_time, locked_state,
                                 Config.IDLE_THRESHOLD, FALSE, TRUE)
                weekday_increment == BaseRateOf(Config) * Clamped(d)
                increment == r.earned_money - earned_money
            IN  get_time_status(Config, now_time) = "WORKING_HOURS" =>
                    /\ Weekday(day) \in 0..4 => increment = weekday_increment
                    /\ Weekday(day) \in 5..6 =>
                           /\ increment = BaseRateOf(Config) * Config.WEEKEND_MULTIPLIER
                                              * Clamped(d)
                           /\ Config.WEEKEND_MULTIPLIER = 2
                                  => increment = 2 * weekday_increment

\* C21 witness: one whole-delta tick on a Saturday at base rate 1 has
\* added 2.
C21_Witness ==
    /\ running /\ is_visible /\ ~is_paused
    /\ Weekday(current_date) = 5
    /\ base_salary_per_second = 1 /\ Config.WEEKEND_MULTIPLIER = 2
    /\ earned_money = 2 /\ settled_date = 0 /\ history = EmptyMap

\* ---------------------------------------------------------------------
\* SpecSettings: where the engine's configuration comes from.  The user
\* types anything into the settings dialog; SettingsDialog._on_ok lets
\* through what it validates.  The settings document that
\* SettingsManager.load_or_none finds at startup is the canonical file or,
\* when that is absent, the file of the single-file program (fish.py,
\* "fish_settings_v1.json"), which load_or_none renames to the canonical
\* path and reads: settings_file stands for the document found.
\* ---------------------------------------------------------------------
\* What the user may type into the dialog: the settings above, a lunch
\* window that ends before it starts (with a weekend multiplier of 0), one
\* that starts before WORK_START, and one that ends after WORK_END.
DialogEntries ==
    SettingsChoices \cup
    { [MONTHLY_SALARY |-> 3600, WORK_DAYS_PER_MONTH |-> 1, WORK_HOURS_PER_DAY |-> 1,
       IDLE_THRESHOLD |-> 3, LOCK_GRACE_PERIOD_MIN |-> 0,
       LUNCH_START |-> 14, LUNCH_END |-> 12, WORK_END |-> 18, WEEKEND_MULTIPLIER |-> 0],
      [MONTHLY_SALARY |-> 3600, WORK_DAYS_PER_MONTH |-> 1, WORK_HOURS_PER_DAY |-> 1,
       IDLE_THRESHOLD |-> 3, LOCK_GRACE_PERIOD_MIN |-> 0,
       LUNCH_START |-> 8, LUNCH_END |-> 10, WORK_END |-> 18, WEEKEND_MULTIPLIER |-> 2],
      [MONTHLY_SALARY |-> 3600, WORK_DAYS_PER_MONTH |-> 1, WORK_HOURS_PER_DAY |-> 1,
       IDLE_THRESHOLD |-> 3, LOCK_GRACE_PERIOD_MIN |-> 0,
       LUNCH_START |-> 17, LUNCH_END |-> 19, WORK_END |-> 18, WEEKEND_MULTIPLIER |-> 2] }

\* SettingsDialog._on_ok (config.py): the entry becomes the dialog's result.
_on_ok(s) ==
    /\ s.MONTHLY_SALARY > 0
    /\ s.WORK_DAYS_PER_MONTH > 0
    /\ s.WORK_HOURS_PER_DAY > 0
    /\ s.IDLE_THRESHOLD >= 0
    /\ s.LOCK_GRACE_PERIOD_MIN >= 0
    /\ s.WEEKEND_MULTIPLIER > 0
    /\ s.LUNCH_START < s.LUNCH_END
    /\ WORK_START < s.WORK_END
    /\ s.LUNCH_START >= WORK_START
    /\ s.LUNCH_END <= s.WORK_END

\* SettingsDialog._on_ok of the single-file program (fish.py): the numbers
\* are examined as above, of the times only lunch start < lunch end.
legacy_on_ok(s) ==
    /\ s.MONTHLY_SALARY > 0
    /\ s.WORK_DAYS_PER_MONTH > 0
    /\ s.WORK_HOURS_PER_DAY > 0
    /\ s.IDLE_THRESHOLD >= 0
    /\ s.LOCK_GRACE_PERIOD_MIN >= 0
    /\ s.WEEKEND_MULTIPLIER > 0
    /\ s.LUNCH_START < s.LUNCH_END

\* The single-file program was configured on this machine before the
\* first start of the application: its settings file is the one
\* load_or_none will migrate.
LegacyConfigured(s) ==
    /\ ~running
    /\ ~settings_file.exists
    /\ legacy_on_ok(s)
    /\ settings_file' = [exists |-> TRUE, settings |-> s]
    /\ UNCHANGED << appvars, Config, data_file, running, episode_start_m,
                    lockvars, savevars, mainvars >>

SettingsTimes == {8, 17, 18}

NextSettings ==
    \/ \E s \in DialogEntries : LegacyConfigured(s)
    \/ \E choice \in {s \in DialogEntries : _on_ok(s)}, now_time \in SettingsTimes :
          Startup(choice, 5, now_time, "Unlocked", 3, FALSE, TRUE)
    \/ \E now_time \in SettingsTimes :
          Tick(MAX_DELTA, 5, now_time, "Unlocked", 3, FALSE, TRUE)
    \/ \E result \in {s \in DialogEntries : _on_ok(s)}, ok \in BOOLEAN :
          ApplySettings(result, ok)
    \/ Crash

SpecSettings == Init /\ [][NextSettings]_vars

\* Times of day examined: around every bound of every schedule.
StatusTimes == 7..20

\* C22: for every time of day and every schedule in force,
\* get_time_status returns the first rule that matches, in the order
\* now < work_start: BeforeWork; lunch_start <= now < lunch_end: Lunch;
\* now >= work_end: OffWork; otherwise WorkingHours.  The end of the lunch
\* window is exclusive, work_end is inclusive.
C22_FirstMatchingRule ==
    running =>
        \A now_time \in StatusTimes :
            LET status == get_time_status(Config, now_time)
                before == now_time < WORK_START
                lunch == Config.LUNCH_START <= now_time /\ now_time < Config.LUNCH_END
                off == now_time >= Config.WORK_END
            IN  /\ status \in {"BEFORE_WORK", "LUNCH", "OFF_WORK", "WORKING_HOURS"}
                /\ before => status = "BEFORE_WORK"
                /\ (~before /\ lunch) => status = "LUNCH"
                /\ (~before /\ ~lunch /\ off) => status = "OFF_WORK"
                /\ (~before /\ ~lunch /\ ~off) => status = "WORKING_HOURS"
                /\ now_time = Config.LUNCH_END => status # "LUNCH"
                /\ (now_time = Config.WORK_END /\ ~before /\ ~lunch)
                       => status = "OFF_WORK"

\* C22 witness: the engine runs on a schedule whose rules overlap (the
\* lunch window reaches beyond work_end) and a tick at work_end, which is
\* Lunch by the order of the rules, has settled the day.
C22_Witness ==
    /\ running
    /\ Config.LUNCH_START < Config.WORK_END /\ Config.WORK_END < Config.LUNCH_END
    /\ get_time_status(Config, Config.WORK_END) = "LUNCH"
    /\ settled_date = current_date

\* The validation rules on the configuration of the engine.
ValidConfig(cfg) ==
    /\ cfg.MONTHLY_SALARY > 0
    /\ cfg.WORK_DAYS_PER_MONTH > 0
    /\ cfg.WORK_HOURS_PER_DAY > 0
    /\ cfg.WEEKEND_MULTIPLIER > 0
    /\ cfg.IDLE_THRESHOLD >= 0
    /\ cfg.LOCK_GRACE_PERIOD >= 0
    /\ WORK_START <= cfg.LUNCH_START
    /\ cfg.LUNCH_START < cfg.LUNCH_END
    /\ cfg.LUNCH_END <= cfg.WORK_END

\* C23: in every state of the running engine its configuration satisfies
\* the validation rules, the settings having come from the dialog or from
\* the settings file found at startup.
C23_EngineConfigValidated ==
    running => ValidConfig(Config)

\* ---------------------------------------------------------------------
\* The wall clock and the accrual (specification Spec)
\* ---------------------------------------------------------------------
\* The part of the application that decides what later ticks add to
\* earned_money.
MoneyState(w) ==
    [ current_date |-> w.current_date, earned_money |-> w.earned_money,
      base_salary_per_second |-> w.base_salary_per_second,
      is_visible |-> w.is_visible, boss_key_pressed |-> w.boss_key_pressed,
      is_in_tray |-> w.is_in_tray, is_paused |-> w.is_paused,
      last_update_time_m |-> w.last_update_time_m,
      lock_start_time_m |-> w.lock_start_time_m ]

\* A second wall-clock reading for each time status.
OtherTimes == {7, 13, 16, 19}

\* The application as another run with the same monotonic timestamps,
\* probe samples and operations but other wall-clock readings may have left
\* it: the same MoneyState, other save flags, save time and usage times.
OtherRuns(w, now_time) ==
    { [w EXCEPT !.is_dirty = TRUE, !.save_requested = TRUE],
      [w EXCEPT !.is_dirty = ~@, !.last_save_time_m = 0 - (SAVE_INTERVAL + 1),
                !.last_after_work_usage = [k \in {w.current_date} |-> now_time]] }

\* C24: two runs with the same monotonic timestamps, probe samples and
\* user operations whose wall-clock readings fall on the same date (hence
\* weekday class) and the same time status at every tick end with the same
\* earned_money.  Step by step: from two states with the same MoneyState
\* a tick of each run, with the same monotonic delta and probe sample and
\* wall-clock readings of the same date and status, leaves the same
\* MoneyState again (the stores of the two runs failing or not), and so do
\* reset_today and new settings.
C24_WallClockReadingIrrelevant ==
    running =>
        /\ \A d \in AccrualSteps, today \in {t \in AccrualDays : t >= current_date},
              now_time \in AccrualTimes, other_time \in OtherTimes,
              locked_state \in LockStates, idle_time \in IdleTimes :
               get_time_status(Config, now_time) = get_time_status(Config, other_time) =>
                   LET m == MoneyState(update_loop(Self, Config, d, today, now_time,
                                                   locked_state, idle_time, FALSE, TRUE))
                   IN  \A other \in OtherRuns(Self, other_time) :
                           m = MoneyState(update_loop(other, Config, d, today, other_time,
                                                      locked_state, idle_time, FALSE, FALSE))
        /\ \A other \in OtherRuns(Self, 19) :
               /\ MoneyState(reset_today(Self, current_date, TRUE))
                    = MoneyState(reset_today(other, current_date, FALSE))
               /\ \A result \in SettingsChoices :
                      MoneyState(apply_settings(Self, result))
                        = MoneyState(apply_settings(other, result))

\* C24 witness: money earned over ticks whose wall-clock readings were
\* recorded (the after-work usage time of the day), on the second date.
C24_Witness ==
    /\ running /\ earned_money > 0 /\ current_date = 6
    /\ 6 \in DOMAIN last_after_work_usage
    /\ 5 \in DOMAIN history

\* ---------------------------------------------------------------------
\* SpecWarn: what the user is told of failures.  The store and the
\* settings store may fail in every operation, the lock probe may fail
\* (Unknown); ticks a save interval apart on a Friday afternoon and the
\* Saturday after it.
\* ---------------------------------------------------------------------
NextWarn ==
    \/ \E choice \in SettingsChoices :
          Startup(choice, 5, 17, "Unlocked", 3, FALSE, TRUE)
    \/ \E today \in {t \in AccrualDays : t >= current_date},
          locked_state \in {"Unlocked", "Unknown"}, ok \in BOOLEAN :
          Tick(SAVE_INTERVAL + 1, today, 17, locked_state, 3, FALSE, ok)
    \/ \E ok \in BOOLEAN : ResetToday(current_date, ok)
    \/ \E result \in SettingsChoices, ok \in BOOLEAN : ApplySettings(result, ok)
    \/ \E ok \in BOOLEAN : Exit(current_date, ok)

SpecWarn == Init /\ [][NextWarn]_vars

C26_NewSettingsRecomputeRateOnly ==
    [][ \A result \in SettingsChoices :
            ApplySettings(result, TRUE) =>
                /\ base_salary_per_second' = BaseRateOf(result)
                /\ Config' = apply_to_config(result)
                /\ settings_file' = [exists |-> TRUE, settings |-> result]
                /\ lock_start_time_m' = None
                /\ UNCHANGED << earned_money, current_date, settled_date, history >>
      ]_vars

\* C26 witness: money earned at base rate 1 is on the books at base rate
\* 2, and no lock timer runs although the probe has been reporting Locked
\* on a visible, unpaused engine in working hours.
C26_Witness ==
    /\ running /\ is_visible /\ ~is_paused
    /\ base_salary_per_second = 2 /\ earned_money = 1
    /\ settings_file.exists /\ BaseRateOf(settings_file.settings) = 2
    /\ episode_start_m # None /\ lock_start_time_m = None

\* ---------------------------------------------------------------------
\* The dirty flags and the file (specification SpecPolicy)
\* ---------------------------------------------------------------------
\* The persisted fields of the application are the ones the data file
\* holds, up to retention pruning.
SameAsSaved(w, file) ==
    LET l == load(file, w.current_date)
    IN  /\ l.current_date = w.current_date
        /\ l.earned_money = w.earned_money
        /\ l.settled_date = w.settled_date
        /\ _prune_date_map(l.history, w.current_date)
              = _prune_date_map(w.history, w.current_date)
        /\ _prune_date_map(l.last_after_work_usage, w.current_date)
              = _prune_date_map(w.last_after_work_usage, w.current_date)

\* C27: after every operation (tick, rollover and settlement in a tick,
\* reset_today), when the persisted fields in memory differ from the last
\* state saved with success (from the defaults, when nothing was saved),
\* is_dirty or save_requested is set.
C27_UnsavedMutationKeepsFlag ==
    (running /\ ~is_dirty /\ ~save_requested) => SameAsSaved(Self, data_file)

\* ---------------------------------------------------------------------
\* The lock timer across a change of date (specification Spec)
\* ---------------------------------------------------------------------
\* C28: a tick that rolls the date over clears the lock timer, whatever
\* lock state the probe reports: maybe_rollover_day leaves it None, and at
\* the end of the tick it is None or was started by this very tick; the
\* value held before is not carried into the new date.
C28_RolloverClearsLockTimer ==
    running =>
        \A d \in AccrualSteps, today \in {t \in AccrualDays : t > current_date},
           now_time \in AccrualTimes, locked_state \in LockStates,
           idle_time \in IdleTimes :
            LET now_m == last_update_time_m + d
                rolled == maybe_rollover_day(Self, Config, today, now_time, now_m,
                                             locked_state)
                r == update_loop(Self, Config, d, today, now_time, locked_state,
                                 idle_time, FALSE, TRUE)
            IN  /\ rolled.current_date = today
                /\ rolled.lock_start_time_m = None
                /\ r.lock_start_time_m \in {None, Some(now_m)}

\* ---------------------------------------------------------------------
\* Retention on load (specification SpecStore)
\* ---------------------------------------------------------------------
\* C29: a successful load() returns history and last_after_work_usage
\* pruned to the retention window of the day of the load: no calendar date
\* older than the window that was in the file is in the maps returned.
C29_LoadedMapsPruned ==
    \A today \in StoreDays, renamed \in BOOLEAN :
        (/\ canonical_file.exists
         /\ ~json_load_raises(canonical_file.bytes)
         /\ IsObject(canonical_file.bytes[5])
         /\ IsObject(canonical_file.bytes[6]))
        => LET l == load_file(canonical_file, today, renamed)
           IN  \A k \in DOMAIN l.state.history \cup DOMAIN l.state.last_after_work_usage :
                   ParsesAsDate(k) => k >= today - (HISTORY_RETENTION_DAYS - 1)

\* ---------------------------------------------------------------------
\* SpecClock: a monotonic clock that jumps: ticks at the same reading, a
\* second and more than a save interval apart, and readings that go back
\* (at most until the timestamps of the engine lie ClockBack seconds
\* ahead); the window hidden and shown; a Friday afternoon and the
\* Saturday after it.
\* ---------------------------------------------------------------------
ClockBack == 2
ClockSteps == {0 - ClockBack, 0, MAX_DELTA, SAVE_INTERVAL + 1}

\* No timestamp of the engine lies after the reading of the last tick.
StampsNotAhead ==
    /\ last_save_time_m <= 0
    /\ last_success_m[1] <= 0
    /\ lock_start_time_m # None => lock_start_time_m[1] <= 0
    /\ episode_start_m # None => episode_start_m[1] <= 0

NextClock ==
    \/ \E choice \in SettingsChoices :
          Startup(choice, 5, 17, "Unlocked", 3, FALSE, TRUE)
    \/ \E d \in ClockSteps, today \in {t \in AccrualDays : t >= current_date},
          locked_state \in {"Locked", "Unlocked"} :
          /\ d < 0 => StampsNotAhead
          /\ Tick(d, today, 17, locked_state, 3, FALSE, TRUE)
    \/ HideToTray
    \/ RestoreFromTray

SpecClock == Init /\ [][NextClock]_vars

\* C30 as stated: whatever the monotonic gap since the previous tick,
\* negative gaps included, the delta of a tick lies in [0, MAX_DELTA],
\* last_update_time_m becomes the reading of the tick, and the tick raises
\* earned_money by at most rate x MAX_DELTA and never lowers it.
C30_TickBoundedNeverLowers ==
    running =>
        \A d \in ClockSteps, today \in {t \in AccrualDays : t >= current_date},
           locked_state \in LockStates, ok \in BOOLEAN :
            LET now_m == last_update_time_m + d
                r == update_loop(Self, Config, d, today, 17, locked_state, 3, FALSE, ok)
            IN  /\ clamp_delta(now_m - last_update_time_m) \in 0..MAX_DELTA
                /\ r.last_update_time_m = now_m
                /\ r.earned_money >= earned_money
                /\ r.earned_money <= earned_money + Rate(today) * MAX_DELTA

\* C30 amended: as C30 for a tick on the current date; a tick on another
\* date (rollover) sets earned_money to 0 and adds nothing.
C30_TickBoundedNeverLowersWithinDate ==
    running =>
        \A d \in ClockSteps, today \in {t \in AccrualDays : t >= current_date},
           locked_state \in LockStates, ok \in BOOLEAN :
            LET now_m == last_update_time_m + d
                r == update_loop(Self, Config, d, today, 17, locked_state, 3, FALSE, ok)
            IN  /\ clamp_delta(now_m - last_update_time_m) \in 0..MAX_DELTA
                /\ r.last_update_time_m = now_m
                /\ IF today = current_date
                   THEN /\ r.earned_money >= earned_money
                        /\ r.earned_money <= earned_money + Rate(today) * MAX_DELTA
                   ELSE r.earned_money = 0

\* C30 witness: the monotonic reading has gone back (the last save lies
\* ahead of the last tick) and the money earned before is on the books.
C30_Witness ==
    /\ running /\ is_visible
    /\ last_save_time_m > 0
    /\ earned_money = MaxMoney

\* ---------------------------------------------------------------------
\* Ticks outside working hours (specification Spec)
\* ---------------------------------------------------------------------
\* C31 as stated: a tick whose time status is BeforeWork, Lunch or OffWork
\* leaves earned_money as it was, for every lock state and idle time; before
\* work a Locked reading leaves the lock timer running and any other reading
\* leaves it cleared.
C31_OffHoursTickKeepsMoney ==
    running =>
        \A d \in AccrualSteps, today \in {t \in AccrualDays : t >= current_date},
           now_time \in AccrualTimes, locked_state \in LockStates,
           idle_time \in IdleTimes, key \in BOOLEAN :
            LET time_status == get_time_status(Config, now_time)
                r == update_loop(Self, Config, d, today, now_time, locked_state,
                                 idle_time, key, TRUE)
            IN  time_status # "WORKING_HOURS" =>
                    /\ r.earned_money = earned_money
                    /\ time_status = "BEFORE_WORK" =>
                           IF locked_state = "Locked"
                           THEN r.lock_start_time_m # None
                           ELSE r.lock_start_time_m = None

\* C31 amended: such a tick leaves earned_money as it was when its
\* wall-clock date is current_date and sets it to 0 (day rollover) when it
\* is not; and when the window is visible after the boss key and the
\* application is not paused, a BeforeWork tick reading Locked starts the
\* lock timer at the tick's monotonic time if none is running and keeps a
\* running one, and a BeforeWork tick with any other reading clears it.
C31_OffHoursTickKeepsMoneyWithinDate ==
    running =>
        \A d \in AccrualSteps, today \in {t \in AccrualDays : t >= current_date},
           now_time \in AccrualTimes, locked_state \in LockStates,
           idle_time \in IdleTimes, key \in BOOLEAN :
            LET time_status == get_time_status(Config, now_time)
                r == update_loop(Self, Config, d, today, now_time, locked_state,
                                 idle_time, key, TRUE)
            IN  time_status # "WORKING_HOURS" =>
                    /\ r.earned_money = IF today = current_date THEN earned_money ELSE 0
                    /\ (/\ time_status = "BEFORE_WORK"
                        /\ boss_key(Self, key).is_visible
                        /\ ~is_paused) =>
                           r.lock_start_time_m =
                              IF locked_state # "Locked" THEN None
                              ELSE IF lock_start_time_m = None
                                   THEN Some(last_update_time_m + d)
                                   ELSE lock_start_time_m

\* C31 witness: with settings under which no hour of the model's day is a
\* working hour (work ends at 17), money earned earlier is on the books and a
\* lock timer started by a BeforeWork tick reading Locked has been kept by a
\* later one.
C31_Witness ==
    /\ running /\ is_visible /\ ~is_paused
    /\ Config.WORK_END = 17 /\ earned_money > 0
    /\ lock_start_time_m # None /\ lock_start_time_m[1] < 0

\* ---------------------------------------------------------------------
\* SpecForced: ticks on every exit path of update_loop: the window hidden
\* by the boss key or in the tray, the application paused, long gaps
\* between ticks, under an arbitrary wall-clock date (rollover and
\* settlement), with crashes and restarts and the store working.
\* ---------------------------------------------------------------------
NextForced ==
    \/ \E today \in Days, now_time \in RolloverTimes, key \in BOOLEAN :
          Tick(SAVE_INTERVAL + 1, today, now_time, "Unlocked", 3, key, TRUE)
    \/ \E choice \in SettingsChoices, today \in Days, now_time \in RolloverTimes :
          Startup(choice, today, now_time, "Unlocked", 3, FALSE, TRUE)
    \/ TogglePause
    \/ HideToTray
    \/ RestoreFromTray
    \/ Crash

SpecForced == Init /\ [][NextForced]_vars

\* C32: a tick that rolls the date over or settles the day after work, the
\* store working, calls DataManager.save itself, whether it leaves by the
\* hidden, the paused or the normal path: at its end both flags are clear and
\* the file holds the state with the new settled_date and the history
\* entries the tick wrote (an entry older than the retention window is
\* dropped by the append itself and is in neither); an application started
\* from that file after a crash has the same settled_date and entries.
C32_SettlementSavedInSameTick ==
    running =>
        \A d \in Steps, today \in Days, now_time \in RolloverTimes, key \in BOOLEAN :
            LET r == update_loop(Self, Config, d, today, now_time, "Unlocked", 3, key, TRUE)
                kept == r.writes \cap DOMAIN r.history
            IN  (today # current_date \/ r.writes # {}) =>
                    /\ r.saves = 1
                    /\ ~r.save_requested /\ ~r.is_dirty
                    /\ r.data_file = DocumentOf(r, today)
                    /\ r.data_file.settled_date = r.settled_date
                    /\ \A D \in r.writes : InRetention(D, today) => D \in kept
                    /\ \A D \in kept :
                          /\ D \in DOMAIN r.data_file.history
                          /\ r.data_file.history[D] = r.history[D]
                          /\ r.history[D] = IF D = today THEN r.earned_money
                                                         ELSE earned_money
                    /\ \A restart \in Days :
                          LET n == NewApp(r.data_file, Config, restart)
                          IN  /\ n.settled_date = r.settled_date
                              /\ \A D \in kept :
                                    D \in DOMAIN n.history /\ n.history[D] = r.history[D]

\* C32 witness: the last tick left by the hidden path (the boss key is down
\* and the window hidden) and stamped its save: the day it rolled over is
\* settled with a positive total, and the file holds the state.
C32_Witness ==
    /\ running /\ ~is_visible /\ ~is_in_tray /\ boss_key_pressed
    /\ last_save_time_m = 0 /\ ~is_dirty /\ ~save_requested
    /\ earned_money = 0 /\ settled_date # 0 /\ settled_date # current_date
    /\ settled_date \in DOMAIN history /\ history[settled_date] > 0
    /\ data_file = DocumentOf(Self, current_date)

\* ---------------------------------------------------------------------
\* SpecRetry: the save policy under a scheduler that goes on (root.after
\* re-arms update_loop at the end of every tick) and a store that fails
\* now and then but works again and again: ticks one save interval apart
\* on a Friday afternoon and the Saturday after it, and a tick whose save,
\* if it makes one, completes keeps occurring.
\* ---------------------------------------------------------------------
RetryTick(ok) ==
    \E today \in {t \in PolicyDays : t >= current_date}, idle_time \in IdleTimes :
       Tick(SAVE_INTERVAL, today, 17, "Unlocked", idle_time, FALSE, ok)

NextRetry ==
    \/ \E ok \in BOOLEAN : RetryTick(ok)
    \/ \E choice \in SettingsChoices :
          Startup(choice, 5, 17, "Unlocked", 0, FALSE, TRUE)
    \/ HideToTray
    \/ RestoreFromTray
    \/ \E ok \in BOOLEAN : ResetToday(current_date, ok)

SpecRetry == Init /\ [][NextRetry]_vars /\ WF_vars(RetryTick(TRUE))

\* The fields DataManager.save persists.
Persisted ==
    << current_date, earned_money, settled_date, history, last_after_work_usage >>

\* C33: whenever is_dirty or save_requested is set, a later tick saves with
\* success: both flags are then clear and the file holds the state (so a
\* save that failed is tried again until one succeeds); and a flag that is
\* clear is set only by a step that changes a persisted field.
C33_FlaggedStateEventuallySaved ==
    /\ (running /\ (is_dirty \/ save_requested))
          ~> (running /\ ~is_dirty /\ ~save_requested /\ SameAsSaved(Self, data_file))
    /\ [][ (/\ running /\ running'
            /\ ~is_dirty /\ ~save_requested
            /\ is_dirty' \/ save_requested')
           => Persisted' # Persisted ]_vars

\* C33 witness: a save has failed (the state is dirty although more than
\* SAVE_INTERVAL has passed since the last save) and the file does not hold
\* the money earned.
C33_Witness ==
    /\ running /\ is_dirty /\ ~save_requested
    /\ 0 - last_save_time_m > SAVE_INTERVAL
    /\ earned_money > 0 /\ ~SameAsSaved(Self, data_file)

\* ---------------------------------------------------------------------
\* SpecMigrate: the migration of legacy data files, from every arrangement
\* of files at the canonical path and the legacy paths, with renames that
\* may fail.
\* ---------------------------------------------------------------------
\* Data files on disk: written by an earlier run of this or of the legacy
\* program.
FilesOnDisk ==
    { [exists |-> TRUE, bytes |-> Serialize(doc), synced |-> TRUE] : doc \in SaveDocs }

InitMigrate ==
    /\ running = FALSE
    /\ episode_start_m = None
    /\ data_file = NoFile
    /\ settings_file = NoSettings
    /\ Config = apply_to_config(CHOOSE s \in SettingsChoices : s.WORK_END = 18)
    /\ current_date = 0 /\ earned_money = 0 /\ settled_date = 0
    /\ history = EmptyMap /\ last_after_work_usage = EmptyMap
    /\ base_salary_per_second = 0
    /\ is_visible = FALSE /\ boss_key_pressed = FALSE /\ is_in_tray = FALSE
    /\ is_paused = FALSE
    /\ last_update_time_m = 0 /\ last_save_time_m = 0 /\ lock_start_time_m = None
    /\ is_dirty = FALSE /\ save_requested = FALSE
    /\ last_success_m = Some(0)
    /\ lock_file = 0
    /\ pc = [p \in Procs |-> "idle"]
    /\ read_pid = [p \in Procs |-> 0]
    /\ canonical_file \in {NoBytes} \cup FilesOnDisk
    /\ tmp_file = NoBytes
    /\ save_pc = "idle"
    /\ save_doc = CHOOSE doc \in SaveDocs : TRUE
    /\ prev_file = NoBytes
    /\ corrupt_file = NoBytes
    /\ store_op = "none"
    /\ exit_save = [p \in Procs |-> "none"]
    /\ warned = [p \in Procs |-> FALSE]
    /\ notified = {}
    /\ legacy_files \in [LegacyPaths -> {NoBytes} \cup FilesOnDisk]

NextMigrate ==
    \E failing \in SUBSET LegacyPaths : MigrateData(failing)

SpecMigrate == InitMigrate /\ [][NextMigrate]_vars

\* The legacy paths that hold a file, in the order they are searched.
ExistingLegacy ==
    { i \in DOMAIN legacy_data_files : legacy_files[legacy_data_files[i]].exists }

\* C34 as stated: when the canonical file exists the migration changes no
\* file; otherwise the first legacy path that holds a file (working
\* directory before data directory) is renamed to the canonical path and
\* every other legacy file stays as it is.
C34_FirstExistingLegacyRenamed ==
    \A failing \in SUBSET LegacyPaths :
        LET r == migrate_legacy_files(legacy_data_files, legacy_files, canonical_file,
                                      failing)
        IN  IF canonical_file.exists \/ ExistingLegacy = {}
            THEN r.target = canonical_file /\ r.files = legacy_files
            ELSE LET first == CHOOSE i \in ExistingLegacy :
                                  \A j \in ExistingLegacy : i <= j
                     path == legacy_data_files[first]
                 IN  /\ r.target = legacy_files[path]
                     /\ r.files = [legacy_files EXCEPT ![path] = NoBytes]

\* C34 amended: when the canonical file exists the migration changes no
\* file; otherwise the legacy paths are tried in order and the first one
\* that holds a file and whose rename does not fail is renamed to the
\* canonical path; a path whose rename fails keeps its file and the search
\* goes on; all other legacy files stay; when no rename succeeds no file
\* changes.
C34_FirstRenamableLegacyRenamed ==
    \A failing \in SUBSET LegacyPaths :
        LET r == migrate_legacy_files(legacy_data_files, legacy_files, canonical_file,
                                      failing)
            renamable == { i \in ExistingLegacy : legacy_data_files[i] \notin failing }
        IN  IF canonical_file.exists \/ renamable = {}
            THEN r.target = canonical_file /\ r.files = legacy_files
            ELSE LET first == CHOOSE i \in renamable : \A j \in renamable : i <= j
                     path == legacy_data_files[first]
                 IN  /\ r.target = legacy_files[path]
                     /\ r.files = [legacy_files EXCEPT ![path] = NoBytes]

\* C34 witness: a migration has renamed the legacy file of the data
\* directory to the canonical path while the one in the working directory,
\* whose rename failed, is still there.
C34_Witness ==
    /\ store_op = "migrated" /\ canonical_file.exists
    /\ legacy_files[legacy_data_files[1]].exists
    /\ ~legacy_files[legacy_data_files[2]].exists
    /\ canonical_file # legacy_files[legacy_data_files[1]]

\* ---------------------------------------------------------------------
\* The archived total of a day (specification Spec)
\* ---------------------------------------------------------------------
\* C35: a tick that rolls the date D = current_date over to a later date
\* leaves history[D] equal to the value earned_money held at the end of D
\* (D inside the retention window), whatever was done during D, reset_today
\* and new settings after D's post-work settlement included.
C35_HistoryHoldsFinalTotal ==
    running =>
        \A d \in AccrualSteps, today \in {t \in AccrualDays : t > current_date},
           now_time \in AccrualTimes, locked_state \in LockStates,
           idle_time \in IdleTimes :
            LET r == update_loop(Self, Config, d, today, now_time, locked_state,
                                 idle_time, FALSE, TRUE)
            IN  InRetention(current_date, today) =>
                    /\ current_date \in DOMAIN r.history
                    /\ r.history[current_date] = earned_money

\* ---------------------------------------------------------------------
\* SpecProbe: the engine fed by the probes of system_utils.py, under every
\* outcome of the operating system calls they make.
\* ---------------------------------------------------------------------
\* What the operating system gives is_workstation_locked: user32 or
\* kernel32 is missing (not Windows), OpenInputDesktop returns 0 (the input
\* desktop cannot be opened: the workstation is locked, or access is
\* denied), returns a handle, or raises.
OSOutcomes == {"no_user32", "desktop_zero", "desktop_handle", "raises"}

\* SystemUtils.is_workstation_locked (system_utils.py 32-49).
is_workstation_locked(outcome) ==
    IF outcome = "no_user32" THEN "Unknown"
    ELSE IF outcome = "raises" THEN "Unknown"
    ELSE IF outcome = "desktop_zero" THEN "Unknown"
    ELSE "Unlocked"

\* The probe of the legacy program (fish.py 314-329), which calls user32
\* unconditionally: a missing user32 raises inside the try.
legacy_is_workstation_locked(outcome) ==
    IF outcome \in {"no_user32", "raises"} THEN "Unknown"
    ELSE IF outcome = "desktop_zero" THEN "Locked"
    ELSE "Unlocked"

\* SystemUtils.get_idle_time (system_utils.py 20-30): 0.0 without user32,
\* otherwise the seconds since the last input.
get_idle_time(outcome, idle_seconds) ==
    IF outcome = "no_user32" THEN 0 ELSE idle_seconds

NextProbe ==
    \/ \E d \in AccrualSteps, today \in {t \in AccrualDays : t >= current_date},
          now_time \in AccrualTimes, outcome \in OSOutcomes, idle_seconds \in IdleTimes :
          Tick(d, today, now_time, is_workstation_locked(outcome),
               get_idle_time(outcome, idle_seconds), FALSE, TRUE)
    \/ \E choice \in SettingsChoices, today \in AccrualDays, outcome \in OSOutcomes :
          Startup(choice, today, 8, is_workstation_locked(outcome),
                  get_idle_time(outcome, 0), FALSE, TRUE)
    \/ TogglePause
    \/ HideToTray
    \/ RestoreFromTray

SpecProbe == Init /\ [][NextProbe]_vars

\* C36: is_workstation_locked reports each of Locked, Unlocked and Unknown
\* for some outcome of the operating system calls, so that a tick in working
\* hours can take the Locked branch.
C36_ProbeReportsAllThreeStates ==
    running =>
        \A locked_state \in LockStates :
            \E outcome \in OSOutcomes : is_workstation_locked(outcome) = locked_state

\* What holds instead: no tick of the running program reads Locked, so the
\* lock timer is never started.
LockTimerNeverStarted ==
    /\ \A outcome \in OSOutcomes : is_workstation_locked(outcome) # "Locked"
    /\ lock_start_time_m = None /\ episode_start_m = None

\* ---------------------------------------------------------------------
\* The last use after work (specification Spec)
\* ---------------------------------------------------------------------
\* A tick counts as active use after work: the time status is OFF_WORK, the
\* lock state is not Locked and the idle time is below the threshold.
ActiveAfterWork(cfg, now_time, locked_state, idle_time) ==
    /\ get_time_status(cfg, now_time) = "OFF_WORK"
    /\ locked_state # "Locked"
    /\ idle_time < cfg.IDLE_THRESHOLD

\* The usage map with the entry of today set to now_time.
UsageWith(usage, today, now_time) ==
    [k \in (DOMAIN usage) \cup {today} |-> IF k = today THEN now_time ELSE usage[k]]

\* C37 as stated: a tick changes last_after_work_usage at the key today
\* only, and only when it is active use after work; every such tick leaves
\* its wall-clock time in last_after_work_usage[today] (so that the entry is
\* the time of the latest such tick of the date); the write leaves
\* earned_money alone.
C37_UsageIsLatestActiveTick ==
    running =>
        \A d \in AccrualSteps, today \in {t \in AccrualDays : t >= current_date},
           now_time \in Times, locked_state \in LockStates,
           idle_time \in IdleTimes, key \in BOOLEAN :
            LET r == update_loop(Self, Config, d, today, now_time, locked_state,
                                 idle_time, key, TRUE)
                u == maybe_update_last_after_work_usage(Self, Config,
                         get_time_status(Config, now_time), today, now_time,
                         idle_time, locked_state)
            IN  /\ r.last_after_work_usage =
                      IF ActiveAfterWork(Config, now_time, locked_state, idle_time)
                      THEN UsageWith(last_after_work_usage, today, now_time)
                      ELSE last_after_work_usage
                /\ u.earned_money = earned_money

\* C37 amended: as C37, for the ticks that find the window visible after
\* the boss key was handled (paused or not); a tick with the window hidden
\* never changes last_after_work_usage, so the entry of a date is the time
\* of the latest active after-work tick of that date with the window
\* visible.
C37_UsageIsLatestVisibleActiveTick ==
    running =>
        \A d \in AccrualSteps, today \in {t \in AccrualDays : t >= current_date},
           now_time \in Times, locked_state \in LockStates,
           idle_time \in IdleTimes, key \in BOOLEAN :
            LET r == update_loop(Self, Config, d, today, now_time, locked_state,
                                 idle_time, key, TRUE)
                u == maybe_update_last_after_work_usage(Self, Config,
                         get_time_status(Config, now_time), today, now_time,
                         idle_time, locked_state)
                written == /\ boss_key(Self, key).is_visible
                           /\ ActiveAfterWork(Config, now_time, locked_state, idle_time)
            IN  /\ r.last_after_work_usage =
                      IF written
                      THEN UsageWith(last_after_work_usage, today, now_time)
                      ELSE last_after_work_usage
                /\ written =>
                      r.earned_money = IF today = current_date THEN earned_money ELSE 0
                /\ u.earned_money = earned_money

\* C37 witness: the use after work of the Friday and of the Saturday has
\* been recorded, with money earned on the Saturday on the books.
C37_Witness ==
    /\ running /\ current_date = 6 /\ earned_money > 0
    /\ DOMAIN last_after_work_usage = {5, 6}
    /\ last_after_work_usage[5] = 17 /\ last_after_work_usage[6] = 17

\* ---------------------------------------------------------------------
\* The tick across a change of date (specification Spec)
\* ---------------------------------------------------------------------
\* C38: a tick on a date other than current_date ends with earned_money = 0
\* and last_update_time_m at its own monotonic reading, whatever time has
\* passed since the tick before, on every path (hidden, paused, normal) and
\* for every probe sample; the total it archives for the old date is the one
\* held before the tick.
C38_RolloverTickEndsAtZero ==
    running =>
        \A d \in AccrualSteps, today \in AccrualDays \ {current_date},
           now_time \in AccrualTimes, locked_state \in LockStates,
           idle_time \in IdleTimes, key \in BOOLEAN :
            LET r == update_loop(Self, Config, d, today, now_time, locked_state,
                                 idle_time, key, TRUE)
            IN  /\ r.current_date = today
                /\ r.earned_money = 0
                /\ r.last_update_time_m = last_update_time_m + d
                /\ current_date \in r.writes => r.history[current_date] = earned_money
                /\ r.data_file.date = today /\ r.data_file.money = 0

\* C38 witness: the Friday's total is archived and the Saturday, begun by a
\* tick with the window visible and the application not paused, stands at
\* 0 in memory and in the file.
C38_Witness ==
    /\ running /\ is_visible /\ ~is_paused /\ base_salary_per_second > 0
    /\ current_date = 6 /\ settled_date = 5
    /\ 5 \in DOMAIN history /\ history[5] > 0
    /\ earned_money = 0 /\ last_save_time_m = 0
    /\ data_file.date = 6 /\ data_file.money = 0

\* ---------------------------------------------------------------------
\* Paused and hidden time (specification SpecForced)
\* ---------------------------------------------------------------------
\* C39: every tick, the paused and the hidden ones included, moves
\* last_update_time_m to its own monotonic reading, and a paused or hidden
\* tick adds no money; so when the application is resumed or shown again
\* after a paused or hidden tick that came d1 seconds after the tick before
\* it, the next tick, d2 seconds later, adds rate x clamp(d2, 0, MAX_DELTA)
\* if it accrues at all, whatever d1 was.
C39_PausedTimeNeverPaid ==
    running =>
        /\ \A d \in Steps, today \in Days, now_time \in RolloverTimes,
              idle_time \in IdleTimes, key \in BOOLEAN :
               LET r == update_loop(Self, Config, d, today, now_time, "Unlocked",
                                    idle_time, key, TRUE)
               IN  /\ r.last_update_time_m = last_update_time_m + d
                   /\ (is_paused \/ ~boss_key(Self, key).is_visible) =>
                          r.earned_money = IF today = current_date THEN earned_money
                                                                   ELSE 0
        /\ (is_paused \/ ~is_visible) =>
              \A d1 \in Steps, d2 \in Steps, now_time \in RolloverTimes,
                 idle_time \in IdleTimes :
                  LET r1 == Rebase(update_loop(Self, Config, d1, current_date, 17,
                                               "Unlocked", 3, FALSE, TRUE))
                      resumed == [r1 EXCEPT !.is_paused = FALSE, !.is_visible = TRUE,
                                            !.is_in_tray = FALSE]
                      r2 == update_loop(resumed, Config, d2, current_date, now_time,
                                        "Unlocked", idle_time, FALSE, TRUE)
                      accruing == /\ get_time_status(Config, now_time) = "WORKING_HOURS"
                                  /\ idle_time >= Config.IDLE_THRESHOLD
                  IN  /\ r1.earned_money = earned_money
                      /\ r2.earned_money = r1.earned_money +
                            (IF accruing THEN Rate(current_date) * Clamped(d2) ELSE 0)

\* C39 witness: on the Friday afternoon, before the end of work, a tick has
\* passed without pay since the last save (an accruing tick would have been
\* saved): the application is paused, the money earned before is on the
\* books.
C39_Witness ==
    /\ running /\ is_paused /\ is_visible
    /\ current_date = 5 /\ settled_date = 0 /\ Config.WORK_END = 18
    /\ earned_money = 1 /\ last_save_time_m < 0

\* ---------------------------------------------------------------------
\* SpecReconfigure: new settings whose save may fail, on a Friday before
\* and during work, the workstation locked and unlocked, with crashes and
\* restarts.
\* ---------------------------------------------------------------------
ReconfigureTimes == {8, 17}

NextReconfigure ==
    \/ \E choice \in SettingsChoices :
          Startup(choice, 5, 8, "Unlocked", 0, FALSE, TRUE)
    \/ \E d \in AccrualSteps, now_time \in ReconfigureTimes,
          locked_state \in {"Locked", "Unlocked"} :
          Tick(d, 5, now_time, locked_state, 3, FALSE, TRUE)
    \/ \E result \in SettingsChoices, ok \in BOOLEAN : ApplySettings(result, ok)
    \/ Crash

SpecReconfigure == Init /\ [][NextReconfigure]_vars

\* C40: the step that warns the user of a failure to save new settings
\* leaves Config, the base rate, the lock timer and the settings file as
\* they were; and in every state of the running application Config is the
\* configuration the settings file gives and the base rate the one Config
\* gives.
C40_FailedSettingsSaveAppliesNothing ==
    /\ [](running =>
            /\ settings_file.exists
            /\ Config = apply_to_config(settings_file.settings)
            /\ base_salary_per_second = calculate_base_rate(Config))
    /\ [][ ("settings" \in notified' /\ "settings" \notin notified) =>
              /\ Config' = Config
              /\ settings_file' = settings_file
              /\ base_salary_per_second' = base_salary_per_second
              /\ lock_start_time_m' = lock_start_time_m
              /\ earned_money' = earned_money ]_vars

\* C40 witness: a failure to save new settings has been reported while the
\* lock timer was running: the timer still runs, and the configuration in
\* memory is the one of the settings file.
C40_Witness ==
    /\ running /\ "settings" \in notified
    /\ lock_start_time_m # None /\ lock_start_time_m[1] < 0
    /\ earned_money > 0
    /\ Config = apply_to_config(settings_file.settings)

====
